---- MODULE Spec2Model ----
(***************************************************************************)
(* Online schema change (postgres-ost): trigger capture, batched backfill, *)
(* log replay, the orchestrator with its cutover transaction, and the      *)
(* polled logical replay.  The database is modelled by the rows of the     *)
(* main table T, of the shadow table and of the log table; one mapped      *)
(* non-key column is carried per row.                                      *)
(***************************************************************************)
EXTENDS Integers, Sequences, FiniteSets, TLC

\* ------------------------------------------------------------ bounds
MaxKey == 2          \* primary keys are 1..MaxKey
MaxVal == 2          \* values of the mapped column are 1..MaxVal
MaxWrites == 3       \* client statements on T per behaviour
MaxBatch == 2        \* BatchedBackfill.batch_size ranges over 1..MaxBatch
ReplayBatch == 2     \* rows per log fetch (the code passes 100)
MaxBfKey == 4        \* keys of the stand-alone backfill runs are 1..MaxBfKey

Keys == 1..MaxKey
Vals == 1..MaxVal
\* A table is a function from the keys of its rows to the row's value.
Tables == UNION {[S -> Vals] : S \in SUBSET Keys}
\* Tables T can hold when a run starts.  A row's value is only ever compared
\* with the value of the same key, so every pre-existing row holds value 1.
InitTables == UNION {[S -> {1}] : S \in SUBSET Keys}
BfTables == UNION {[S -> Vals] : S \in SUBSET (1..MaxBfKey)}
EmptyTable == [k \in {} |-> k]
Has(t, k) == k \in DOMAIN t
Put(t, k, v) == [x \in DOMAIN t \cup {k} |-> IF x = k THEN v ELSE t[x]]
Del(t, k) == [x \in DOMAIN t \ {k} |-> t[x]]
TriggerObjects ==
  {"log_table", "insert_trigger_fn", "insert_trigger", "delete_trigger_fn",
   "delete_trigger", "update_trigger_fn", "update_trigger"}
LogicalObjects == {"publication", "slot"}
Ops == {"INSERT", "UPDATE", "DELETE"}

VARIABLES
  T,             \* rows of the main table: key -> value
  shadow,        \* rows of the shadow table (public.T once swapped)
  log,           \* rows of the log table, ascending post_migration_log_id
  nextSeq,       \* the BIGSERIAL sequence of the log table
  trig,          \* the three capture triggers are installed on T
  logExists,     \* the log table exists
  shadowExists,  \* post_migrations.T exists
  swapped,       \* the swap has been committed
  oldExists,     \* the original table exists under the old-table name
  installed,     \* capture objects of this migration that exist in the database
  mode,          \* the ReplayMode of the run
  execute,       \* orchestrate's argument
  batch_size,    \* BatchedBackfill.batch_size
  stop_replay,   \* the AtomicBool shared with the replay thread
  orchPc,        \* position of orchestrate
  tx,            \* uncommitted effects of the cutover transaction
  cutoverBegin,  \* committed log and shadow rows when the cutover began
  bfPc,          \* position of the backfill thread
  last_seen_id,  \* backfill cursor
  bfReturned,    \* every id RETURNed to the backfill, in order
  rpPc,          \* position of the replay thread
  rpResult,      \* result of the thread's last replay_log call
  rpBatch,       \* rows fetched by the thread's last replay_log call
  writesLeft,    \* client statements still allowed
  everDeleted,   \* keys some client DELETE removed from T
  apPc, apRow, apOnce, apTwice,          \* applying one statement twice
  slot, slotExists, pubExists, lrResult, lrBatch,  \* logical capture
  attempted,     \* the drops a capture teardown has issued
  call,          \* a function call under test: its name and arguments
  ret,           \* what the call returned, once it has
  last_lsn,      \* LogicalReplicationStream.last_lsn
  conn,          \* the replication connection: frames not yet read, status updates sent
  messages,      \* what the last next_batch returned
  slResult,      \* result of the last streaming replay_log call
  replyOwed,     \* a keepalive asked for a reply and no status update was sent since
  calls,         \* streaming replay_log calls made so far
  framesLeft,    \* frames the server may still send
  applied        \* wal_end of the last change whose statements all succeeded

dbVars == <<T, shadow, log, nextSeq, trig, logExists, shadowExists, swapped, oldExists, installed>>
orchVars == <<execute, mode, stop_replay, orchPc, tx, cutoverBegin>>
bfVars == <<batch_size, bfPc, last_seen_id, bfReturned>>
rpVars == <<rpPc, rpResult, rpBatch>>
clVars == <<writesLeft, everDeleted>>
apVars == <<apPc, apRow, apOnce, apTwice>>
lrVars == <<slot, slotExists, pubExists, lrResult, lrBatch, attempted>>
fnVars == <<call, ret>>
stVars == <<last_lsn, conn, messages, slResult, replyOwed, calls, framesLeft, applied>>
vars == <<dbVars, orchVars, bfVars, rpVars, clVars, apVars, lrVars, fnVars, stVars>>

\* ------------------------------------------------------------ helpers
Min(a, b) == IF a < b THEN a ELSE b
Head_n(s, n) == SubSeq(s, 1, Min(n, Len(s)))
Drop_n(s, n) == SubSeq(s, Min(n, Len(s)) + 1, Len(s))
IsPrefix(p, s) == Len(p) <= Len(s) /\ SubSeq(s, 1, Len(p)) = p
Range(s) == {s[i] : i \in 1..Len(s)}
NoTx == [consumed |-> 0, shadow |-> EmptyTable]
NoSnapshot == [log |-> <<>>, shadow |-> EmptyTable]
NoCall == [fn |-> "none"]
NoReturn == [done |-> FALSE]
NoResult == [ok |-> TRUE, shadow |-> EmptyTable]

\* ------------------------------------------------------------ apply statements
\* A statement is [kind, pk]; the column lists are fixed by the ColumnMap and the
\* values are re-read from T when the statement runs.

\* (mutant) a DELETE that only removes keys still present in the main table
ExecDeleteIfInMain(k, sh, t) ==
  [ok |-> TRUE, shadow |-> IF Has(t, k) THEN Del(sh, k) ELSE sh]

\* DELETE FROM shadow WHERE pk = k
ExecDelete(k, sh, t) == [ok |-> TRUE, shadow |-> Del(sh, k)]

\* INSERT INTO shadow (cols) SELECT cols FROM main WHERE pk = k
\* no row in T: zero rows inserted; key already in shadow: unique violation
ExecInsert(k, sh, t) ==
  IF ~Has(t, k) THEN [ok |-> TRUE, shadow |-> sh]
  ELSE IF Has(sh, k) THEN [ok |-> FALSE, shadow |-> sh]
  ELSE [ok |-> TRUE, shadow |-> Put(sh, k, t[k])]

\* UPDATE shadow SET c = (SELECT c FROM main WHERE pk = k), ... WHERE pk = k
\* no row in shadow: zero rows updated; shadow row but no row in T: every
\* subquery is NULL, the key column included, and NOT NULL is violated
ExecUpdate(k, sh, t) ==
  IF ~Has(sh, k) THEN [ok |-> TRUE, shadow |-> sh]
  ELSE IF ~Has(t, k) THEN [ok |-> FALSE, shadow |-> sh]
  ELSE [ok |-> TRUE, shadow |-> Put(sh, k, t[k])]

Exec(stmt, sh, t) ==
  CASE stmt.kind = "DELETE" -> ExecDelete(stmt.pk, sh, t)
    [] stmt.kind = "INSERT" -> ExecInsert(stmt.pk, sh, t)
    [] stmt.kind = "UPDATE" -> ExecUpdate(stmt.pk, sh, t)

\* for stmt in statements { client.batch_execute(&stmt)?; }
RECURSIVE ApplyStmts(_, _, _)
ApplyStmts(stmts, sh, t) ==
  IF stmts = <<>> THEN [ok |-> TRUE, shadow |-> sh]
  ELSE LET r == Exec(Head(stmts), sh, t)
       IN IF r.ok THEN ApplyStmts(Tail(stmts), r.shadow, t)
          ELSE [ok |-> FALSE, shadow |-> r.shadow]

\* (mutant) batch2sql without the UPDATE branch
batch2sql_no_update(rows) ==
  LET known == SelectSeq(rows, LAMBDA r : r.op \in {"INSERT", "DELETE"})
  IN [i \in 1..Len(known) |-> [kind |-> known[i].op, pk |-> known[i].pk]]

\* LogTableReplay::batch2sql: one statement per row whose operation is known
batch2sql(rows) ==
  LET known == SelectSeq(rows, LAMBDA r : r.op \in Ops)
  IN [i \in 1..Len(known) |-> [kind |-> known[i].op, pk |-> known[i].pk]]

\* LogTableReplay::fetch_batch: DELETE ... ORDER BY post_migration_log_id LIMIT n
fetch_batch(lg, n) == Head_n(lg, n)

\* (mutant) replay_log without the transaction: every statement autocommits
replay_log_autocommit(lg, sh, t) ==
  LET rows == fetch_batch(lg, ReplayBatch)
      res == ApplyStmts(batch2sql(rows), sh, t)
  IN [ok |-> res.ok, rows |-> rows, log |-> Drop_n(lg, Len(rows)), shadow |-> res.shadow]

\* LogTableReplay::replay_log: fetch and apply in one transaction; the first
\* failing statement returns early and the dropped transaction rolls back
replay_log(lg, sh, t) ==
  LET rows == fetch_batch(lg, ReplayBatch)
      res == ApplyStmts(batch2sql(rows), sh, t)
  IN IF res.ok
     THEN [ok |-> TRUE, rows |-> rows, log |-> Drop_n(lg, Len(rows)), shadow |-> res.shadow]
     ELSE [ok |-> FALSE, rows |-> rows, log |-> lg, shadow |-> sh]

\* ------------------------------------------------------------ backfill
RECURSIVE Asc(_)
Asc(S) ==
  IF S = {} THEN <<>>
  ELSE LET m == CHOOSE x \in S : \A y \in S : x <= y
       IN <<m>> \o Asc(S \ {m})

\* (mutant) the cursor comparison off by one: WHERE id >= $1
backfill_select_from_cursor(t, cursor, n) ==
  Head_n(Asc({k \in DOMAIN t : cursor = <<>> \/ k >= cursor[1]}), n)

\* SELECT ... FROM T [WHERE id > $1] ORDER BY id ASC LIMIT batch_size
backfill_select(t, cursor, n) ==
  Head_n(Asc({k \in DOMAIN t : cursor = <<>> \/ k > cursor[1]}), n)

RECURSIVE InsertRows(_, _, _)
InsertRows(ids, sh, t) ==
  IF ids = <<>> THEN sh
  ELSE InsertRows(Tail(ids), Put(sh, Head(ids), t[Head(ids)]), t)

\* One round of BatchedBackfill::backfill's loop: a plain INSERT ... SELECT ...
\* RETURNING id.  A selected key that the shadow already holds is a unique
\* violation: the statement inserts nothing and `?` returns the error.
BackfillBatch ==
  /\ bfPc = "run"
  /\ LET ids == backfill_select(T, last_seen_id, batch_size)
     IN IF \E i \in 1..Len(ids) : Has(shadow, ids[i])
        THEN /\ bfPc' = "err"
             /\ UNCHANGED <<shadow, last_seen_id, bfReturned>>
        ELSE /\ shadow' = InsertRows(ids, shadow, T)
             /\ bfReturned' = bfReturned \o ids
             /\ IF ids = <<>>
                THEN bfPc' = "done" /\ UNCHANGED last_seen_id
                ELSE bfPc' = "run" /\ last_seen_id' = <<ids[Len(ids)]>>
  /\ UNCHANGED <<T, log, nextSeq, trig, logExists, shadowExists, swapped, oldExists, installed>>
  /\ UNCHANGED <<batch_size, orchVars, rpVars, clVars, apVars, fnVars, stVars, lrVars>>

\* ------------------------------------------------------------ clients of T
\* The AFTER ... FOR EACH ROW triggers append one log row in the writer's
\* transaction; with a logical slot the change is decoded from the WAL.
\* Writers are blocked once the cutover transaction has run DDL on T.
TriggerFor(op) ==
  CASE op = "INSERT" -> "insert_trigger"
    [] op = "UPDATE" -> "update_trigger"
    [] op = "DELETE" -> "delete_trigger"

\* (mutant) triggers that log inserts and updates, with no delete trigger
CapturedNoDelete(op, k) ==
  /\ IF TriggerFor(op) \in installed /\ op # "DELETE"
     THEN log' = Append(log, [seq |-> nextSeq, op |-> op, pk |-> k])
          /\ nextSeq' = nextSeq + 1
     ELSE UNCHANGED <<log, nextSeq>>

\* (mutant) every trigger attached twice
CapturedTwice(op, k) ==
  /\ IF TriggerFor(op) \in installed
     THEN log' = log \o <<[seq |-> nextSeq, op |-> op, pk |-> k],
                         [seq |-> nextSeq + 1, op |-> op, pk |-> k]>>
          /\ nextSeq' = nextSeq + 2
     ELSE UNCHANGED <<log, nextSeq>>

Captured(op, k) ==
  /\ IF TriggerFor(op) \in installed
     THEN log' = Append(log, [seq |-> nextSeq, op |-> op, pk |-> k])
          /\ nextSeq' = nextSeq + 1
     ELSE UNCHANGED <<log, nextSeq>>

\* (statements that commit before setup_migration are part of the initial T)
ClientCanWrite ==
  /\ writesLeft > 0
  /\ ~swapped
  /\ orchPc \notin {"init", "swap", "commit"}

ClientInsert ==
  /\ ClientCanWrite
  /\ \E k \in Keys, v \in Vals :
       /\ ~Has(T, k)
       /\ T' = Put(T, k, v)
       /\ Captured("INSERT", k)
       /\ IF slotExists
          THEN slot' = Append(slot, [change |-> <<[kind |-> "insert", columnvalues |-> <<k, v>>, oldkeys |-> <<>>]>>])
          ELSE UNCHANGED slot
  /\ writesLeft' = writesLeft - 1
  /\ UNCHANGED <<shadow, trig, logExists, shadowExists, swapped, oldExists, installed, everDeleted>>
  /\ UNCHANGED <<slotExists, pubExists, lrResult, lrBatch, attempted>>
  /\ UNCHANGED <<orchVars, bfVars, rpVars, apVars, fnVars, stVars>>

ClientUpdate ==
  /\ ClientCanWrite
  /\ \E k \in Keys, v \in Vals :
       /\ Has(T, k)
       /\ T[k] # v
       /\ T' = Put(T, k, v)
       /\ Captured("UPDATE", k)
       /\ IF slotExists
          THEN slot' = Append(slot, [change |-> <<[kind |-> "update", columnvalues |-> <<k, v>>, oldkeys |-> <<k, T[k]>>]>>])
          ELSE UNCHANGED slot
  /\ writesLeft' = writesLeft - 1
  /\ UNCHANGED <<shadow, trig, logExists, shadowExists, swapped, oldExists, installed, everDeleted>>
  /\ UNCHANGED <<slotExists, pubExists, lrResult, lrBatch, attempted>>
  /\ UNCHANGED <<orchVars, bfVars, rpVars, apVars, fnVars, stVars>>

ClientDelete ==
  /\ ClientCanWrite
  /\ \E k \in Keys :
       /\ Has(T, k)
       /\ T' = Del(T, k)
       /\ Captured("DELETE", k)
       /\ everDeleted' = everDeleted \cup {k}
       /\ IF slotExists
          THEN slot' = Append(slot, [change |-> <<[kind |-> "delete", columnvalues |-> <<>>, oldkeys |-> <<k, T[k]>>]>>])
          ELSE UNCHANGED slot
  /\ writesLeft' = writesLeft - 1
  /\ UNCHANGED <<shadow, trig, logExists, shadowExists, swapped, oldExists, installed>>
  /\ UNCHANGED <<slotExists, pubExists, lrResult, lrBatch, attempted>>
  /\ UNCHANGED <<orchVars, bfVars, rpVars, apVars, fnVars, stVars>>

\* ------------------------------------------------------------ replay thread
\* while !stop_replay.load() { let _ = replay.replay_log(..).is_err(); sleep(200ms) }
\* (mutant) a loop that also ends when the last replay_log returned Err
RpCheckExitOnErr ==
  /\ rpPc = "check"
  /\ rpPc' = IF stop_replay \/ rpResult = "err" THEN "exited" ELSE "call"
  /\ UNCHANGED <<rpResult, rpBatch>>
  /\ UNCHANGED <<dbVars, orchVars, bfVars, clVars, apVars, fnVars, stVars, lrVars>>

RpCheck ==
  /\ rpPc = "check"
  /\ rpPc' = IF stop_replay THEN "exited" ELSE "call"
  /\ UNCHANGED <<rpResult, rpBatch>>
  /\ UNCHANGED <<dbVars, orchVars, bfVars, clVars, apVars, fnVars, stVars, lrVars>>

RpReplayLog ==
  /\ rpPc = "call"
  /\ LET r == replay_log(log, shadow, T)
     IN /\ log' = r.log
        /\ shadow' = r.shadow
        /\ rpResult' = IF r.ok THEN "ok" ELSE "err"
        /\ rpBatch' = r.rows
  /\ rpPc' = "sleep"
  /\ UNCHANGED <<T, nextSeq, trig, logExists, shadowExists, swapped, oldExists, installed>>
  /\ UNCHANGED <<orchVars, bfVars, clVars, apVars, fnVars, stVars, lrVars>>

RpSleep ==
  /\ rpPc = "sleep"
  /\ rpPc' = "check"
  /\ UNCHANGED <<rpResult, rpBatch>>
  /\ UNCHANGED <<dbVars, orchVars, bfVars, clVars, apVars, fnVars, stVars, lrVars>>

\* ------------------------------------------------------------ orchestrator
\* Migration::setup_migration: schema, shadow table (dropped if present, created
\* LIKE T, migrated), column map, log table, triggers; each step's error is
\* returned at once with '?', leaving what the earlier steps created
OrchSetup ==
  /\ orchPc = "init"
  /\ \E failing \in {"none", "migrate_shadow_table", "create_triggers"} :
       /\ shadowExists' = TRUE
       /\ shadow' = EmptyTable
       /\ logExists' = (failing \in {"none", "create_triggers"})
       /\ trig' = (failing = "none")
       /\ installed' = installed \cup
            (CASE failing = "none" -> TriggerObjects
               [] failing = "create_triggers" -> {"log_table"}
               [] OTHER -> {})
       /\ orchPc' = IF failing = "none" THEN "spawn" ELSE "err_setup"
  /\ UNCHANGED <<T, log, nextSeq, swapped, oldExists>>
  /\ UNCHANGED <<execute, mode, stop_replay, tx, cutoverBegin>>
  /\ UNCHANGED <<bfVars, rpVars, clVars, apVars, fnVars, stVars, lrVars>>

\* start_log_replay_thread; start_backfill_thread
OrchSpawn ==
  /\ orchPc = "spawn"
  /\ stop_replay' = FALSE
  /\ rpPc' = "check"
  /\ bfPc' = "run"
  /\ orchPc' = "join_backfill"
  /\ UNCHANGED <<dbVars, execute, mode, tx, cutoverBegin>>
  /\ UNCHANGED <<batch_size, last_seen_id, bfReturned, rpResult, rpBatch>>
  /\ UNCHANGED <<clVars, apVars, fnVars, stVars, lrVars>>

\* backfill_handle.join().expect(..)?; stop_replay.store(true)
OrchJoinBackfill ==
  /\ orchPc = "join_backfill"
  /\ bfPc \in {"done", "err"}
  /\ IF bfPc = "err"
     THEN orchPc' = "err_backfill" /\ UNCHANGED stop_replay
     ELSE orchPc' = "join_replay" /\ stop_replay' = TRUE
  /\ UNCHANGED <<dbVars, execute, mode, tx, cutoverBegin>>
  /\ UNCHANGED <<bfVars, rpVars, clVars, apVars, fnVars, stVars, lrVars>>

\* (mutant) the cutover entered without joining the replay thread
OrchJoinReplayNoWait ==
  /\ orchPc = "join_replay"
  /\ IF execute
     THEN /\ orchPc' = "drain"
          /\ tx' = [consumed |-> 0, shadow |-> shadow]
          /\ cutoverBegin' = [log |-> log, shadow |-> shadow]
     ELSE /\ orchPc' = "dry_teardown"
          /\ UNCHANGED <<tx, cutoverBegin>>
  /\ UNCHANGED <<dbVars, execute, mode, stop_replay>>
  /\ UNCHANGED <<bfVars, rpVars, clVars, apVars, fnVars, stVars, lrVars>>

\* replay_handle.join(); then client.transaction() or the dry-run branch
OrchJoinReplay ==
  /\ orchPc = "join_replay"
  /\ rpPc = "exited"
  /\ IF execute
     THEN /\ orchPc' = "drain"
          /\ tx' = [consumed |-> 0, shadow |-> shadow]
          /\ cutoverBegin' = [log |-> log, shadow |-> shadow]
     ELSE /\ orchPc' = "dry_teardown"
          /\ UNCHANGED <<tx, cutoverBegin>>
  /\ UNCHANGED <<dbVars, execute, mode, stop_replay>>
  /\ UNCHANGED <<bfVars, rpVars, clVars, apVars, fnVars, stVars, lrVars>>

\* One round of LogTableReplay::replay_log_until_complete inside the cutover
\* transaction: the rows it deletes and the shadow rows it writes stay
\* uncommitted in tx; a failing statement drops the transaction (rollback).
OrchDrain ==
  /\ orchPc = "drain"
  /\ LET rows == fetch_batch(Drop_n(log, tx.consumed), ReplayBatch)
         res == ApplyStmts(batch2sql(rows), tx.shadow, T)
     IN IF rows = <<>>
        THEN orchPc' = "teardown" /\ UNCHANGED tx
        ELSE IF res.ok
        THEN /\ orchPc' = "drain"
             /\ tx' = [consumed |-> tx.consumed + Len(rows), shadow |-> res.shadow]
        ELSE orchPc' = "err_cutover" /\ tx' = NoTx
  /\ UNCHANGED <<dbVars, execute, mode, stop_replay, cutoverBegin>>
  /\ UNCHANGED <<bfVars, rpVars, clVars, apVars, fnVars, stVars, lrVars>>

\* (mutant) teardown run on a pooled client, outside the transaction
OrchTeardownAutocommit ==
  /\ orchPc = "teardown"
  /\ trig' = FALSE
  /\ logExists' = FALSE
  /\ log' = <<>>
  /\ installed' = installed \ TriggerObjects
  /\ orchPc' = "swap"
  /\ UNCHANGED <<T, shadow, nextSeq, shadowExists, swapped, oldExists>>
  /\ UNCHANGED <<execute, mode, stop_replay, tx, cutoverBegin>>
  /\ UNCHANGED <<bfVars, rpVars, clVars, apVars, fnVars, stVars, lrVars>>

\* replay.teardown(&mut transaction): DROP TRIGGER x3, DROP FUNCTION x3, DROP
\* TABLE log, uncommitted; the DDL locks T until the transaction ends
OrchTeardown ==
  /\ orchPc = "teardown"
  /\ \E fails \in BOOLEAN :
       IF fails
       THEN orchPc' = "err_cutover" /\ tx' = NoTx
       ELSE orchPc' = "swap" /\ UNCHANGED tx
  /\ UNCHANGED <<dbVars, execute, mode, stop_replay, cutoverBegin>>
  /\ UNCHANGED <<bfVars, rpVars, clVars, apVars, fnVars, stVars, lrVars>>

\* self.migration.swap_tables(&mut transaction): one simple_query of
\* "BEGIN; ALTER TABLE T RENAME TO old; ALTER TABLE shadow RENAME TO T; COMMIT;".
\* Inside the open transaction BEGIN only warns and COMMIT ends the enclosing
\* transaction, so the drained log rows, the shadow writes, the teardown and
\* the renames become visible together here. A failing ALTER skips the rest
\* of the string; the Err drops the transaction (rollback).
OrchSwap ==
  /\ orchPc = "swap"
  /\ \E fails \in BOOLEAN :
       IF fails
       THEN /\ orchPc' = "err_cutover"
            /\ UNCHANGED <<shadow, log, trig, logExists, shadowExists, swapped, oldExists, installed>>
       ELSE /\ orchPc' = "commit"
            /\ shadow' = tx.shadow
            /\ log' = <<>>
            /\ trig' = FALSE
            /\ logExists' = FALSE
            /\ shadowExists' = FALSE
            /\ swapped' = TRUE
            /\ oldExists' = TRUE
            /\ installed' = installed \ TriggerObjects
  /\ tx' = NoTx
  /\ UNCHANGED <<T, nextSeq, execute, mode, stop_replay, cutoverBegin>>
  /\ UNCHANGED <<bfVars, rpVars, clVars, apVars, fnVars, stVars, lrVars>>

\* transaction.commit(): the COMMIT it sends finds no transaction in progress
\* (a server warning, not an error) and changes nothing
OrchCommit ==
  /\ orchPc = "commit"
  /\ orchPc' = "done_exec"
  /\ UNCHANGED <<dbVars, execute, mode, stop_replay, tx, cutoverBegin>>
  /\ UNCHANGED <<bfVars, rpVars, clVars, apVars, fnVars, stVars, lrVars>>

\* the dry-run branch: replay.teardown(&mut *client) and nothing else
OrchDryTeardown ==
  /\ orchPc = "dry_teardown"
  /\ trig' = FALSE
  /\ logExists' = FALSE
  /\ log' = <<>>
  /\ installed' = installed \ TriggerObjects
  /\ orchPc' = "done_dry"
  /\ UNCHANGED <<T, shadow, nextSeq, shadowExists, swapped, oldExists>>
  /\ UNCHANGED <<execute, mode, stop_replay, tx, cutoverBegin>>
  /\ UNCHANGED <<bfVars, rpVars, clVars, apVars, fnVars, stVars, lrVars>>

\* ------------------------------------------------------------ specification
IdleApply ==
  /\ apPc = "idle"
  /\ apRow = [seq |-> 0, op |-> "INSERT", pk |-> 1]
  /\ apOnce = NoResult
  /\ apTwice = NoResult
  /\ call = NoCall
  /\ ret = NoReturn

IdleLogical ==
  /\ slot = <<>>
  /\ slotExists = FALSE
  /\ pubExists = FALSE
  /\ lrResult = "none"
  /\ lrBatch = <<>>
  /\ attempted = {}

\* no replication stream has been opened
NoConn == [incoming |-> <<>>, outgoing |-> <<>>]
IdleStream ==
  /\ last_lsn = 0
  /\ conn = NoConn
  /\ messages = <<>>
  /\ slResult = "none"
  /\ replyOwed = FALSE
  /\ calls = 0
  /\ framesLeft = 0
  /\ applied = 0

Init ==
  /\ T \in InitTables
  /\ shadow = EmptyTable
  /\ log = <<>>
  /\ nextSeq = 1
  /\ trig = FALSE
  /\ logExists = FALSE
  /\ shadowExists = FALSE
  /\ swapped = FALSE
  /\ oldExists = FALSE
  /\ installed = {}
  /\ execute \in BOOLEAN
  /\ mode = "Log"
  /\ batch_size \in 1..MaxBatch
  /\ stop_replay = FALSE
  /\ orchPc = "init"
  /\ tx = NoTx
  /\ cutoverBegin = NoSnapshot
  /\ bfPc = "unborn"
  /\ last_seen_id = <<>>
  /\ bfReturned = <<>>
  /\ rpPc = "unborn"
  /\ rpResult = "none"
  /\ rpBatch = <<>>
  /\ writesLeft = MaxWrites
  /\ everDeleted = {}
  /\ IdleApply
  /\ IdleStream
  /\ IdleLogical

Next ==
  \/ ClientInsert
  \/ ClientUpdate
  \/ ClientDelete
  \/ BackfillBatch
  \/ RpCheck
  \/ RpReplayLog
  \/ RpSleep
  \/ OrchSetup
  \/ OrchSpawn
  \/ OrchJoinBackfill
  \/ OrchJoinReplay
  \/ OrchDrain
  \/ OrchTeardown
  \/ OrchSwap
  \/ OrchCommit
  \/ OrchDryTeardown

Spec == Init /\ [][Next]_vars

\* ------------------------------------------------------------ one statement, twice
\* A generated apply statement executed twice in succession against the same T.
ApplyFirst ==
  /\ apPc = "ready"
  /\ LET r == Exec(batch2sql(<<apRow>>)[1], shadow, T)
     IN apOnce' = r /\ shadow' = r.shadow
  /\ apPc' = "once"
  /\ UNCHANGED <<T, log, nextSeq, trig, logExists, shadowExists, swapped, oldExists, installed>>
  /\ UNCHANGED <<fnVars, stVars, apRow, apTwice, orchVars, bfVars, rpVars, clVars, lrVars>>

ApplySecond ==
  /\ apPc = "once"
  /\ LET r == Exec(batch2sql(<<apRow>>)[1], shadow, T)
     IN apTwice' = r /\ shadow' = r.shadow
  /\ apPc' = "twice"
  /\ UNCHANGED <<T, log, nextSeq, trig, logExists, shadowExists, swapped, oldExists, installed>>
  /\ UNCHANGED <<fnVars, stVars, apRow, apOnce, orchVars, bfVars, rpVars, clVars, lrVars>>

IdleOrch ==
  /\ execute = FALSE
  /\ mode = "Log"
  /\ stop_replay = FALSE
  /\ orchPc = "none"
  /\ tx = NoTx
  /\ cutoverBegin = NoSnapshot
  /\ rpPc = "unborn"
  /\ rpResult = "none"
  /\ rpBatch = <<>>
  /\ log = <<>>
  /\ nextSeq = 1
  /\ trig = FALSE
  /\ logExists = FALSE
  /\ swapped = FALSE
  /\ oldExists = FALSE
  /\ installed = {}
  /\ everDeleted = {}

InitApply ==
  /\ T \in Tables
  /\ shadow \in Tables
  /\ shadowExists = TRUE
  /\ apPc = "ready"
  /\ apRow \in [seq : {1}, op : Ops, pk : Keys]
  /\ apOnce = NoResult
  /\ apTwice = NoResult
  /\ call = NoCall
  /\ ret = NoReturn
  /\ batch_size = 1
  /\ bfPc = "unborn"
  /\ last_seen_id = <<>>
  /\ bfReturned = <<>>
  /\ writesLeft = 0
  /\ IdleOrch
  /\ IdleLogical
  /\ IdleStream

NextApply == ApplyFirst \/ ApplySecond

SpecApply == InitApply /\ [][NextApply]_vars

\* ------------------------------------------------------------ backfill alone
\* BatchedBackfill::backfill on a table of any size, no concurrent writer
InitBackfill ==
  /\ T \in BfTables
  /\ shadow = EmptyTable
  /\ shadowExists = TRUE
  /\ batch_size \in 1..MaxBatch
  /\ bfPc = "run"
  /\ last_seen_id = <<>>
  /\ bfReturned = <<>>
  /\ writesLeft = 0
  /\ IdleOrch
  /\ IdleApply
  /\ IdleStream
  /\ IdleLogical

NextBackfill == BackfillBatch

SpecBackfill == InitBackfill /\ [][NextBackfill]_vars /\ WF_vars(BackfillBatch)

\* ------------------------------------------------------------ logical capture, polled
NullPk == 0          \* the literal NULL that stands for a missing key value
KindToOp(kind) ==
  CASE kind = "insert" -> "INSERT"
    [] kind = "update" -> "UPDATE"
    [] kind = "delete" -> "DELETE"
    [] OTHER -> "NONE"

RECURSIVE Changes(_)
Changes(docs) ==
  IF docs = <<>> THEN <<>> ELSE Head(docs).change \o Changes(Tail(docs))

\* (mutant) the key always taken from columnvalues, as for insert and update
pk_sql_columnvalues(change) ==
  IF change.columnvalues = <<>> THEN NullPk ELSE change.columnvalues[1]

\* the key of a change: oldkeys.keyvalues[0] for delete, columnvalues[0] otherwise
pk_sql(change) ==
  LET vals == IF change.kind = "delete" THEN change.oldkeys ELSE change.columnvalues
  IN IF vals = <<>> THEN NullPk ELSE vals[1]

\* wal2json2sql: the statement of every change of a known kind, in order
wal2json2sql(batch) ==
  LET known == SelectSeq(Changes(batch), LAMBDA c : KindToOp(c.kind) \in Ops)
  IN [i \in 1..Len(known) |-> [kind |-> KindToOp(known[i].kind), pk |-> pk_sql(known[i])]]

\* Slot::get_changes: pg_logical_slot_get_changes(slot, NULL, n) returns the
\* next changes and advances the slot past them when the call returns
get_changes(sl, n) == [rows |-> Head_n(sl, n), slot |-> Drop_n(sl, n)]

\* LogicalReplay::replay_log: get_changes, then every statement on the plain
\* client (autocommit); the first failing statement returns the error
logical_replay_log(sl, sh, t) ==
  LET got == get_changes(sl, ReplayBatch)
      res == ApplyStmts(wal2json2sql(got.rows), sh, t)
  IN [ok |-> res.ok, rows |-> got.rows, slot |-> got.slot, shadow |-> res.shadow]

\* LogicalReplay::setup: publication.create, slot.create_slot; the backfill is
\* started only after setup has returned
LogicalSetup ==
  /\ orchPc = "logical"
  /\ ~pubExists
  /\ ~slotExists
  /\ pubExists' = TRUE
  /\ slotExists' = TRUE
  /\ installed' = installed \cup LogicalObjects
  /\ bfPc' = "run"
  /\ UNCHANGED <<slot, lrResult, lrBatch, attempted>>
  /\ UNCHANGED <<T, shadow, log, nextSeq, trig, logExists, shadowExists, swapped, oldExists>>
  /\ UNCHANGED <<orchVars, batch_size, last_seen_id, bfReturned>>
  /\ UNCHANGED <<rpVars, clVars, apVars, fnVars, stVars>>

\* one poll of the replay loop in logical mode
LogicalReplayLog ==
  /\ slotExists
  /\ LET r == logical_replay_log(slot, shadow, T)
     IN /\ slot' = r.slot
        /\ shadow' = r.shadow
        /\ lrResult' = IF r.ok THEN "ok" ELSE "err"
        /\ lrBatch' = r.rows
  /\ UNCHANGED <<T, log, nextSeq, trig, logExists, shadowExists, swapped, oldExists, installed>>
  /\ UNCHANGED <<slotExists, pubExists, attempted>>
  /\ UNCHANGED <<orchVars, bfVars, rpVars, clVars, apVars, fnVars, stVars>>

InitLogical ==
  /\ T \in InitTables
  /\ shadow = EmptyTable
  /\ shadowExists = TRUE
  /\ log = <<>>
  /\ nextSeq = 1
  /\ trig = FALSE
  /\ logExists = FALSE
  /\ swapped = FALSE
  /\ oldExists = FALSE
  /\ installed = {}
  /\ execute = FALSE
  /\ mode = "Logical"
  /\ stop_replay = FALSE
  /\ orchPc = "logical"
  /\ tx = NoTx
  /\ cutoverBegin = NoSnapshot
  /\ batch_size \in 1..MaxBatch
  /\ bfPc = "unborn"
  /\ last_seen_id = <<>>
  /\ bfReturned = <<>>
  /\ rpPc = "unborn"
  /\ rpResult = "none"
  /\ rpBatch = <<>>
  /\ writesLeft = MaxWrites
  /\ everDeleted = {}
  /\ IdleApply
  /\ IdleStream
  /\ IdleLogical

NextLogical ==
  \/ LogicalSetup
  \/ ClientInsert
  \/ ClientUpdate
  \/ ClientDelete
  \/ BackfillBatch
  \/ LogicalReplayLog

SpecLogical == InitLogical /\ [][NextLogical]_vars

\* ------------------------------------------------------------ insert then delete
\* A key was inserted into T and deleted again before either event was
\* replayed: T has no row for it, the shadow table holds whatever the backfill
\* copied meanwhile. The two events are then replayed, in trigger mode
\* (batch2sql) or logical mode (wal2json2sql), with backfill batches between.
InsertEventStmts(k) ==
  { batch2sql(<<[seq |-> 1, op |-> "INSERT", pk |-> k]>>) } \cup
  { wal2json2sql(<<[change |-> <<[kind |-> "insert", columnvalues |-> <<k, v>>, oldkeys |-> <<>>]>>]>>) : v \in Vals }

DeleteEventStmts(k) ==
  { batch2sql(<<[seq |-> 2, op |-> "DELETE", pk |-> k]>>) } \cup
  { wal2json2sql(<<[change |-> <<[kind |-> "delete", columnvalues |-> <<>>, oldkeys |-> <<k, v>>]>>]>>) : v \in Vals }

PairReplayInsert ==
  /\ apPc = "pair"
  /\ \E stmts \in InsertEventStmts(apRow.pk) :
       LET r == ApplyStmts(stmts, shadow, T)
       IN apOnce' = r /\ shadow' = r.shadow
  /\ apPc' = "inserted"
  /\ UNCHANGED <<T, log, nextSeq, trig, logExists, shadowExists, swapped, oldExists, installed>>
  /\ UNCHANGED <<fnVars, stVars, apRow, apTwice, orchVars, bfVars, rpVars, clVars, lrVars>>

PairReplayDelete ==
  /\ apPc = "inserted"
  /\ \E stmts \in DeleteEventStmts(apRow.pk) :
       LET r == ApplyStmts(stmts, shadow, T)
       IN apTwice' = r /\ shadow' = r.shadow
  /\ apPc' = "deleted"
  /\ UNCHANGED <<T, log, nextSeq, trig, logExists, shadowExists, swapped, oldExists, installed>>
  /\ UNCHANGED <<fnVars, stVars, apRow, apOnce, orchVars, bfVars, rpVars, clVars, lrVars>>

InitPair ==
  /\ T \in Tables
  /\ shadow \in Tables
  /\ shadowExists = TRUE
  /\ apPc = "pair"
  /\ apRow \in [seq : {1}, op : {"INSERT"}, pk : Keys \ DOMAIN T]
  /\ apOnce = NoResult
  /\ apTwice = NoResult
  /\ call = NoCall
  /\ ret = NoReturn
  /\ batch_size \in 1..MaxBatch
  /\ bfPc = "run"
  /\ last_seen_id = <<>>
  /\ bfReturned = <<>>
  /\ writesLeft = 0
  /\ IdleOrch
  /\ IdleLogical
  /\ IdleStream

NextPair ==
  \/ PairReplayInsert
  \/ PairReplayDelete
  \/ BackfillBatch

SpecPair == InitPair /\ [][NextPair]_vars

\* ------------------------------------------------------------ capture setup and teardown
\* Replay::setup followed by Replay::teardown for each implementation of the
\* trait, statement by statement, with application sessions writing meanwhile.
ReplayModes == {"Log", "Logical", "StreamingLogical"}

\* the calls of setup, in order; each is followed by '?'
SetupSteps(m) ==
  CASE m = "Log" ->
         <<"create_log_table", "insert_trigger", "delete_trigger", "update_trigger">>
    [] m = "Logical" ->
         <<"replica_identity", "create_publication", "create_slot">>
    [] m = "StreamingLogical" ->
         <<"replica_identity", "create_publication", "create_slot", "start_stream">>

\* what a successful call creates (a multi-statement batch is one implicit
\* transaction: the function and its trigger appear together or not at all)
StepCreates(step) ==
  CASE step = "create_log_table" -> {"log_table"}
    [] step = "insert_trigger" -> {"insert_trigger_fn", "insert_trigger"}
    [] step = "delete_trigger" -> {"delete_trigger_fn", "delete_trigger"}
    [] step = "update_trigger" -> {"update_trigger_fn", "update_trigger"}
    [] step = "create_publication" -> {"publication"}
    [] step = "create_slot" -> {"slot"}
    [] OTHER -> {}

StepAfter(m, step) ==
  LET steps == SetupSteps(m)
      i == CHOOSE j \in 1..Len(steps) : steps[j] = step
  IN IF i = Len(steps) THEN "setup_ok" ELSE steps[i + 1]

\* one call of setup: Err returns at once and leaves what exists
CaptureSetupStep ==
  /\ orchPc \in Range(SetupSteps(mode))
  /\ \E fails \in BOOLEAN :
       LET now == IF fails THEN installed ELSE installed \cup StepCreates(orchPc)
       IN /\ installed' = now
          /\ logExists' = ("log_table" \in now)
          /\ trig' = ({"insert_trigger", "delete_trigger", "update_trigger"} \subseteq now)
          /\ pubExists' = ("publication" \in now)
          /\ slotExists' = ("slot" \in now)
          /\ orchPc' = IF fails THEN "setup_err" ELSE StepAfter(mode, orchPc)
  /\ UNCHANGED <<T, shadow, log, nextSeq, shadowExists, swapped, oldExists>>
  /\ UNCHANGED <<execute, mode, stop_replay, tx, cutoverBegin>>
  /\ UNCHANGED <<slot, lrResult, lrBatch, attempted>>
  /\ UNCHANGED <<bfVars, rpVars, clVars, apVars, fnVars, stVars>>

\* LogTableReplay::teardown in a transaction the caller commits: the batch of
\* DROP TRIGGER / DROP FUNCTION, then DROP TABLE log; an Err rolls both back
TeardownLog ==
  /\ mode = "Log"
  /\ orchPc = "setup_ok"
  /\ \E fails \in BOOLEAN :
       IF fails
       THEN /\ orchPc' = "teardown_err"
            /\ UNCHANGED <<installed, logExists, trig, log>>
       ELSE /\ orchPc' = "torn_down"
            /\ installed' = installed \ TriggerObjects
            /\ logExists' = FALSE
            /\ trig' = FALSE
            /\ log' = <<>>
  /\ attempted' = attempted \cup {"drop_triggers", "drop_log_table"}
  /\ UNCHANGED <<T, shadow, nextSeq, shadowExists, swapped, oldExists>>
  /\ UNCHANGED <<execute, mode, stop_replay, tx, cutoverBegin>>
  /\ UNCHANGED <<slot, slotExists, pubExists, lrResult, lrBatch>>
  /\ UNCHANGED <<bfVars, rpVars, clVars, apVars, fnVars, stVars>>

\* LogicalReplay::teardown, first call: self.slot.drop_slot(transaction)?
TeardownLogicalSlot ==
  /\ mode = "Logical"
  /\ orchPc = "setup_ok"
  /\ attempted' = attempted \cup {"drop_slot"}
  /\ \E fails \in BOOLEAN :
       IF fails
       THEN /\ orchPc' = "teardown_err"
            /\ UNCHANGED <<installed, slotExists, slot>>
       ELSE /\ orchPc' = "drop_publication"
            /\ installed' = installed \ {"slot"}
            /\ slotExists' = FALSE
            /\ slot' = <<>>
  /\ UNCHANGED <<T, shadow, log, nextSeq, trig, logExists, shadowExists, swapped, oldExists>>
  /\ UNCHANGED <<execute, mode, stop_replay, tx, cutoverBegin>>
  /\ UNCHANGED <<pubExists, lrResult, lrBatch>>
  /\ UNCHANGED <<bfVars, rpVars, clVars, apVars, fnVars, stVars>>

\* LogicalReplay::teardown, second call: self.publication.drop(transaction)?
TeardownLogicalPublication ==
  /\ mode = "Logical"
  /\ orchPc = "drop_publication"
  /\ attempted' = attempted \cup {"drop_publication"}
  /\ \E fails \in BOOLEAN :
       IF fails
       THEN /\ orchPc' = "teardown_err"
            /\ UNCHANGED <<installed, pubExists>>
       ELSE /\ orchPc' = "torn_down"
            /\ installed' = installed \ {"publication"}
            /\ pubExists' = FALSE
  /\ UNCHANGED <<T, shadow, log, nextSeq, trig, logExists, shadowExists, swapped, oldExists>>
  /\ UNCHANGED <<execute, mode, stop_replay, tx, cutoverBegin>>
  /\ UNCHANGED <<slot, slotExists, lrResult, lrBatch>>
  /\ UNCHANGED <<bfVars, rpVars, clVars, apVars, fnVars, stVars>>

\* StreamingLogicalReplay::teardown: returns Ok(()) and issues nothing
TeardownStreaming ==
  /\ mode = "StreamingLogical"
  /\ orchPc = "setup_ok"
  /\ orchPc' = "torn_down"
  /\ UNCHANGED <<dbVars, execute, mode, stop_replay, tx, cutoverBegin>>
  /\ UNCHANGED <<bfVars, rpVars, clVars, apVars, fnVars, stVars, lrVars>>

InitCapture ==
  /\ T \in InitTables
  /\ shadow = EmptyTable
  /\ shadowExists = TRUE
  /\ log = <<>>
  /\ nextSeq = 1
  /\ trig = FALSE
  /\ logExists = FALSE
  /\ swapped = FALSE
  /\ oldExists = FALSE
  /\ installed = {}
  /\ execute = FALSE
  /\ mode \in ReplayModes
  /\ stop_replay = FALSE
  /\ orchPc = SetupSteps(mode)[1]
  /\ tx = NoTx
  /\ cutoverBegin = NoSnapshot
  /\ batch_size = 1
  /\ bfPc = "unborn"
  /\ last_seen_id = <<>>
  /\ bfReturned = <<>>
  /\ rpPc = "unborn"
  /\ rpResult = "none"
  /\ rpBatch = <<>>
  /\ writesLeft = MaxWrites
  /\ everDeleted = {}
  /\ IdleApply
  /\ IdleStream
  /\ IdleLogical

NextCapture ==
  \/ CaptureSetupStep
  \/ TeardownLog
  \/ TeardownLogicalSlot
  \/ TeardownLogicalPublication
  \/ TeardownStreaming
  \/ ClientInsert
  \/ ClientUpdate
  \/ ClientDelete

SpecCapture == InitCapture /\ [][NextCapture]_vars

\* ------------------------------------------------------------ Migration::orchestrate
\* The orchestration of migration.rs: the same setup, threads and joins, then
\* one replay_log, then swap_tables and drop_old_table_if_exists (execute) or
\* drop_shadow_table_if_exists (dry run), each on the pooled client.

\* replay_handle.join(); pool.get()
MigJoinReplay ==
  /\ orchPc = "join_replay"
  /\ rpPc = "exited"
  /\ orchPc' = "final_replay"
  /\ UNCHANGED <<dbVars, execute, mode, stop_replay, tx, cutoverBegin>>
  /\ UNCHANGED <<bfVars, rpVars, clVars, apVars, fnVars, stVars, lrVars>>

\* self.replay_log(&mut client)?: one call, one batch
MigFinalReplay ==
  /\ orchPc = "final_replay"
  /\ LET r == replay_log(log, shadow, T)
     IN /\ log' = r.log
        /\ shadow' = r.shadow
        /\ orchPc' = IF ~r.ok THEN "err_final"
                     ELSE IF execute THEN "mig_swap" ELSE "mig_drop_shadow"
  /\ UNCHANGED <<T, nextSeq, trig, logExists, shadowExists, swapped, oldExists, installed>>
  /\ UNCHANGED <<execute, mode, stop_replay, tx, cutoverBegin>>
  /\ UNCHANGED <<bfVars, rpVars, clVars, apVars, fnVars, stVars, lrVars>>

\* self.swap_tables(&mut client)?: the statement's own BEGIN ... COMMIT
MigSwap ==
  /\ orchPc = "mig_swap"
  /\ \E fails \in BOOLEAN :
       IF fails
       THEN /\ orchPc' = "err_swap"
            /\ UNCHANGED <<shadowExists, swapped, oldExists>>
       ELSE /\ orchPc' = "mig_drop_old"
            /\ shadowExists' = FALSE
            /\ swapped' = TRUE
            /\ oldExists' = TRUE
  /\ UNCHANGED <<T, shadow, log, nextSeq, trig, logExists, installed>>
  /\ UNCHANGED <<execute, mode, stop_replay, tx, cutoverBegin>>
  /\ UNCHANGED <<bfVars, rpVars, clVars, apVars, fnVars, stVars, lrVars>>

\* self.drop_old_table_if_exists(&mut client)?: DROP TABLE IF EXISTS old; the
\* triggers on the table go with it
MigDropOld ==
  /\ orchPc = "mig_drop_old"
  /\ oldExists' = FALSE
  /\ trig' = FALSE
  /\ installed' = installed \ {"insert_trigger", "delete_trigger", "update_trigger"}
  /\ orchPc' = "done_exec"
  /\ UNCHANGED <<T, shadow, log, nextSeq, logExists, shadowExists, swapped>>
  /\ UNCHANGED <<execute, mode, stop_replay, tx, cutoverBegin>>
  /\ UNCHANGED <<bfVars, rpVars, clVars, apVars, fnVars, stVars, lrVars>>

\* self.drop_shadow_table_if_exists(&mut client)?
MigDropShadow ==
  /\ orchPc = "mig_drop_shadow"
  /\ shadowExists' = FALSE
  /\ orchPc' = "done_dry"
  /\ UNCHANGED <<T, shadow, log, nextSeq, trig, logExists, swapped, oldExists, installed>>
  /\ UNCHANGED <<execute, mode, stop_replay, tx, cutoverBegin>>
  /\ UNCHANGED <<bfVars, rpVars, clVars, apVars, fnVars, stVars, lrVars>>

NextMigration ==
  \/ OrchSetup
  \/ OrchSpawn
  \/ OrchJoinBackfill
  \/ MigJoinReplay
  \/ MigFinalReplay
  \/ MigSwap
  \/ MigDropOld
  \/ MigDropShadow
  \/ BackfillBatch
  \/ RpCheck
  \/ RpReplayLog
  \/ RpSleep
  \/ ClientInsert
  \/ ClientUpdate
  \/ ClientDelete

SpecMigration == Init /\ [][NextMigration]_vars

\* ------------------------------------------------------------ claims (Spec)
InCutoverTx == orchPc \in {"drain", "teardown", "swap"}

\* C1: when the cutover commits, every row of T is in the new public.T
\* (the former shadow) under the same key with T's current value.
C1_RowsOfTInNewTable ==
  swapped =>
    \A k \in DOMAIN T : Has(shadow, k) /\ shadow[k] = T[k]

\* C2: every key deleted from T before the cutover commits (and not in T at
\* the commit) is absent from public.T after the swap.
C2_DeletedKeysAbsent ==
  swapped =>
    \A k \in everDeleted : ~Has(T, k) => ~Has(shadow, k)

\* C3: from the start of the cutover transaction to its commit T is locked
\* against writers: no step taken while the transaction is open changes T.
C3_NoWriteDuringCutover == [][InCutoverTx => T' = T]_vars

\* C5: a key that replay put into the shadow table before a backfill batch
\* selects it does not abort the backfill (it never returns an error).
C5_BackfillNeverAborts == bfPc # "err"

\* C7: a replay_log call of the replay thread that returns Err leaves the log
\* table and the shadow table as they were, and the rows it had fetched are
\* still the first rows of the log for the next poll.
C7_FailedBatchRollsBack ==
  /\ [][(rpPc = "call" /\ rpPc' = "sleep" /\ rpResult' = "err")
          => (log' = log /\ shadow' = shadow)]_vars
  /\ [](rpPc \in {"sleep", "check"} /\ rpResult = "err" => IsPrefix(rpBatch, log))

C7_Witness == rpPc = "sleep" /\ rpResult = "err" /\ Len(rpBatch) > 1

\* C9: after orchestrate(execute = false) returns Ok, T carries no capture
\* trigger and neither the shadow table nor the log table exists.
C9_DryRunLeavesNothing ==
  orchPc = "done_dry" => ~trig /\ ~logExists /\ ~shadowExists

\* C10: when replay_log_until_complete, teardown or the swap fails in the
\* cutover transaction, nothing of it is committed: public.T is the
\* original table, the triggers and the log table are in place with every log
\* row that was there when the transaction began, and the shadow table exists
\* with the rows it had then.
C10_FailedCutoverCommitsNothing ==
  orchPc = "err_cutover" =>
    /\ ~swapped
    /\ trig
    /\ logExists
    /\ shadowExists
    /\ shadow = cutoverBegin.shadow
    /\ IsPrefix(cutoverBegin.log, log)

C10_Witness == orchPc = "err_cutover" /\ cutoverBegin.log # <<>>

\* ------------------------------------------------------------ claims (SpecApply)
\* C4: an apply statement that succeeded succeeds again when it is executed a
\* second time, and leaves the shadow table as the first execution left it.
C4_ApplyTwiceSameAsOnce ==
  apPc = "twice" /\ apOnce.ok => apTwice.ok /\ apTwice.shadow = apOnce.shadow

\* ------------------------------------------------------------ claims (SpecBackfill)
\* C6: with no concurrent writer and an empty shadow table the backfill ends
\* without error for every batch_size >= 1, and then the shadow table holds
\* exactly the rows of T, each returned (copied) once, in key order.
C6_BackfillCopiesEveryRowOnce ==
  /\ <>(bfPc = "done")
  /\ [](bfPc # "err")
  /\ [](bfPc = "done" => shadow = T /\ bfReturned = Asc(DOMAIN T))

C6_Witness ==
  bfPc = "done" /\ Cardinality(DOMAIN T) > 2 * batch_size /\ shadow = T

\* ------------------------------------------------------------ claims (SpecLogical)
\* C8: when a polled logical replay_log call returns Err, the changes that
\* call fetched are still the next changes of the slot.
C8_FailedBatchStaysInSlot ==
  lrResult = "err" => IsPrefix(lrBatch, slot)

\* ------------------------------------------------------------ claims (SpecMigration)
\* C11: after orchestrate(execute = true) has returned Ok the original table
\* exists under the old-table name, the former shadow table is public.T and
\* post_migrations.T is gone.
C11_OldTableKept ==
  orchPc = "done_exec" => oldExists /\ swapped /\ ~shadowExists

\* ------------------------------------------------------------ claims (SpecPair)
\* C12: for a key inserted into T and deleted again before either event is
\* replayed, replaying the INSERT event succeeds and leaves the shadow table
\* as it was, and once the DELETE event is replayed too the key is absent from
\* the shadow table, whatever backfill did.
C12_InsertThenDeleteConverges ==
  /\ [][apPc = "pair" /\ apPc' = "inserted" => apOnce'.ok /\ shadow' = shadow]_vars
  /\ [](apPc = "deleted" => apTwice.ok /\ ~Has(shadow, apRow.pk))

C12_Witness ==
  apPc = "deleted" /\ Has(apOnce.shadow, apRow.pk) /\ bfReturned # <<>>

\* ------------------------------------------------------------ claims (Spec), cont.
\* C13: when a step before the cutover fails (setup, backfill) orchestrate has
\* removed the shadow table and the capture structures before it returns.
C13_FailureBeforeCutoverCleansUp ==
  orchPc \in {"err_setup", "err_backfill"} => ~shadowExists /\ installed = {}

\* ------------------------------------------------------------ claims (SpecCapture)
\* C14: after a capture setup that failed part-way no log table, trigger,
\* function, publication or slot of the migration exists.
C14_FailedSetupLeavesNothing ==
  orchPc = "setup_err" => installed = {}

\* C15: a logical-capture teardown issues both the slot drop and the
\* publication drop, whether or not one of them fails.
C15_TeardownAttemptsBoth ==
  mode = "Logical" /\ orchPc \in {"teardown_err", "torn_down"} =>
    {"drop_slot", "drop_publication"} \subseteq attempted

\* C16: for every replay variant, after setup and then teardown have both
\* returned Ok no capture object of the migration remains.
C16_SetupThenTeardownLeavesNothing ==
  orchPc = "torn_down" => installed = {}

\* ------------------------------------------------------------ DDL scripts
\* A script is a sequence of statements separated by ';'.  A statement is kept
\* as what the parsers read from it: its kind, the relation it names (with an
\* optional schema prefix) and, for CREATE TABLE .. PARTITION OF, the parent.
MaxStmts == 3
Names == {"t", "u", "t_p0"}
Schemas == {"", "public"}
DdlKinds == {"alter", "drop", "create", "rename"}
OtherStmt == [kind |-> "other", schema |-> "", rel |-> "", parent |-> ""]
Stmts ==
  [kind : DdlKinds, schema : Schemas, rel : Names, parent : {""}]
    \cup {st \in [kind : {"partition_of"}, schema : Schemas, rel : Names, parent : Names] :
            st.rel # st.parent}
    \cup {OtherStmt}
Scripts == UNION {[1..n -> Stmts] : n \in 0..MaxStmts}

\* ObjectName::to_string, and the name pg_query reports: schema.rel or rel
Qual(schema, rel) == IF schema = "" THEN rel ELSE schema \o "." \o rel

\* the relations one statement names, in the order the visitors meet them; the
\* schema prefix of a PARTITION OF statement is the parent's
StmtTables(st) ==
  CASE st.kind \in DdlKinds -> <<Qual(st.schema, st.rel)>>
    [] st.kind = "partition_of" -> <<st.rel, Qual(st.schema, st.parent)>>
    [] OTHER -> <<>>

\* SqlParser::extract_tables: every relation of every statement
RECURSIVE extract_tables(_)
extract_tables(sql) ==
  IF sql = <<>> THEN <<>> ELSE StmtTables(Head(sql)) \o extract_tables(Tail(sql))

NoTable == [ok |-> FALSE, table_name |-> ""]

\* Migration::new: the script must name exactly one distinct relation
MigrationNew(sql) ==
  LET unique_tables == Range(extract_tables(sql))
  IN  IF Cardinality(unique_tables) = 1
      THEN [ok |-> TRUE, table_name |-> CHOOSE x \in unique_tables : TRUE]
      ELSE NoTable

\* PgQueryParser::extract_main_table: the first table of the first statement
\* that has one; the later statements are not looked at
RECURSIVE extract_main_table(_)
extract_main_table(sql) ==
  IF sql = <<>> THEN NoTable
  ELSE IF StmtTables(Head(sql)) # <<>>
       THEN [ok |-> TRUE, table_name |-> StmtTables(Head(sql))[1]]
       ELSE extract_main_table(Tail(sql))

\* nothing of the migration is running: the state a pure function is called in
IdleProgram ==
  /\ T = EmptyTable
  /\ shadow = EmptyTable
  /\ shadowExists = FALSE
  /\ batch_size = 1
  /\ bfPc = "unborn"
  /\ last_seen_id = <<>>
  /\ bfReturned = <<>>
  /\ writesLeft = 0
  /\ apPc = "idle"
  /\ apRow = [seq |-> 0, op |-> "INSERT", pk |-> 1]
  /\ apOnce = NoResult
  /\ apTwice = NoResult
  /\ IdleOrch
  /\ IdleLogical
  /\ IdleStream

Returns(fn, value) ==
  /\ call.fn = fn
  /\ ~ret.done
  /\ ret' = [done |-> TRUE, value |-> value]
  /\ UNCHANGED <<call, dbVars, orchVars, bfVars, rpVars, clVars, apVars, lrVars, stVars>>

MigrationNewCall == Returns("Migration::new", MigrationNew(call.args))

ExtractMainTableCall == Returns("extract_main_table", extract_main_table(call.args))

InitConstruct ==
  /\ call \in [fn : {"Migration::new", "extract_main_table"}, args : Scripts]
  /\ ret = NoReturn
  /\ IdleProgram

NextConstruct == MigrationNewCall \/ ExtractMainTableCall

SpecConstruct == InitConstruct /\ [][NextConstruct]_vars

\* the base tables a script refers to: the relation of every ALTER, DROP,
\* CREATE and RENAME and the parent of every PARTITION OF; a partition child
\* is not a base table of the script
BaseTables(sql) ==
  {sql[i].rel : i \in {j \in 1..Len(sql) : sql[j].kind \in DdlKinds}}
    \cup {sql[i].parent : i \in {j \in 1..Len(sql) : sql[j].kind = "partition_of"}}

\* ------------------------------------------------------------ claims (SpecConstruct)
\* C17: constructing a migration fails when the script refers to no base table
\* or to two or more distinct base tables, and succeeds with that table when
\* every statement targets one and the same base table.
C17_ExactlyOneBaseTable ==
  ret.done /\ call.fn \in {"Migration::new", "extract_main_table"} =>
    LET base == BaseTables(call.args)
    IN  IF Cardinality(base) = 1
        THEN /\ ret.value.ok
             /\ \E b \in base : ret.value.table_name \in {b, Qual("public", b)}
        ELSE ~ret.value.ok

\* ------------------------------------------------------------ primary key lookup
\* The catalogue side of the lookup: the columns of the table's primary index,
\* each with the text of its type.
MaxPkCols == 2
PkNames == {"id", "b", "c"}
PkTypes == {"integer", "bigint", "text", "uuid"}
PkColumns == [attname : PkNames, typname : PkTypes]
PrimaryIndexes ==
  {ix \in UNION {[1..n -> PkColumns] : n \in 0..MaxPkCols} :
     \A i, j \in 1..Len(ix) : i # j => ix[i].attname # ix[j].attname}

PkFailed == [ok |-> FALSE, name |-> "", ty |-> ""]

\* the match on the type name; any other name panics
PkType(type_name) == IF type_name = "integer" THEN "INT4" ELSE "INT8"

\* get_primary_key_info: query_one over the index columns LIMIT 1, which is
\* an error on no row and, with no ORDER BY, any one column of the index
\* otherwise; then the match on its type.  The set of possible outcomes.
get_primary_key_info(ix) ==
  IF ix = <<>> THEN {PkFailed}
  ELSE {IF row.typname \in {"integer", "bigint"}
        THEN [ok |-> TRUE, name |-> row.attname, ty |-> PkType(row.typname)]
        ELSE PkFailed : row \in Range(ix)}

GetPrimaryKeyInfoCall ==
  \E value \in get_primary_key_info(call.args) :
    Returns("get_primary_key_info", value)

InitPk ==
  /\ call \in [fn : {"get_primary_key_info"}, args : PrimaryIndexes]
  /\ ret = NoReturn
  /\ IdleProgram

NextPk == GetPrimaryKeyInfoCall

SpecPk == InitPk /\ [][NextPk]_vars

\* ------------------------------------------------------------ claims (SpecPk)
\* C18: the primary-key lookup succeeds, with the column's name and type, only
\* for a primary key of one column of type integer or bigint; it fails for no
\* primary key, a composite one and any other column type.
C18_SingleIntegerPkOnly ==
  ret.done /\ call.fn = "get_primary_key_info" =>
    LET ix == call.args
    IN  IF Len(ix) = 1 /\ ix[1].typname \in {"integer", "bigint"}
        THEN ret.value = [ok |-> TRUE, name |-> ix[1].attname, ty |-> PkType(ix[1].typname)]
        ELSE ~ret.value.ok

\* ------------------------------------------------------------ DDL rewriter
\* The text of a statement as far as relation names go: its kind and the
\* names it prints.  The prefix of a PARTITION OF statement is the parent's.
Deparse(st) ==
  [kind   |-> st.kind,
   rel    |-> IF st.kind \in DdlKinds THEN Qual(st.schema, st.rel) ELSE st.rel,
   parent |-> IF st.kind = "partition_of" THEN Qual(st.schema, st.parent) ELSE ""]

ShadowSchema == "post_migrations"
ShadowName(table_name) == Qual(ShadowSchema, table_name)

\* PgQueryParser: one statement; a relation matches on relname alone and gets
\* the shadow's relname and schemaname, every other statement keeps its text
PgRewriteStmt(st, table_name) ==
  [kind   |-> st.kind,
   rel    |-> IF st.kind \in DdlKinds \cup {"partition_of"} /\ st.rel = table_name
              THEN ShadowName(table_name) ELSE Deparse(st).rel,
   parent |-> IF st.kind = "partition_of" /\ st.parent = table_name
              THEN ShadowName(table_name) ELSE Deparse(st).parent]

\* TableNameRewriter::post_visit_relation: a relation matches when its whole
\* printed name equals rename_table_from
SqlRewriteStmt(st, table_name) ==
  [kind   |-> st.kind,
   rel    |-> IF st.kind # "other" /\ Deparse(st).rel = table_name
              THEN ShadowName(table_name) ELSE Deparse(st).rel,
   parent |-> IF st.kind = "partition_of" /\ Deparse(st).parent = table_name
              THEN ShadowName(table_name) ELSE Deparse(st).parent]

RewriteFailed == [ok |-> FALSE, stmts |-> <<>>]

\* PgQueryParser::migrate_shadow_table_statement: every statement rewritten,
\* joined in order
PgMigrateShadowTableStatement(sql, table_name) ==
  [ok |-> TRUE, stmts |-> [i \in 1..Len(sql) |-> PgRewriteStmt(sql[i], table_name)]]

\* SqlParser::migrate_shadow_table_statement: every statement visited, then
\* altered_ast[0] alone is returned (an index panic on an empty script)
SqlMigrateShadowTableStatement(sql, table_name) ==
  IF sql = <<>> THEN RewriteFailed
  ELSE [ok |-> TRUE, stmts |-> <<SqlRewriteStmt(sql[1], table_name)>>]

PgMigrateCall ==
  Returns("PgQueryParser::migrate_shadow_table_statement",
          PgMigrateShadowTableStatement(call.args.sql, call.args.table_name))

SqlMigrateCall ==
  Returns("SqlParser::migrate_shadow_table_statement",
          SqlMigrateShadowTableStatement(call.args.sql, call.args.table_name))

InitRewrite ==
  /\ call \in [fn : {"PgQueryParser::migrate_shadow_table_statement",
                     "SqlParser::migrate_shadow_table_statement"},
               args : [sql : Scripts, table_name : {"t", "u"}]]
  /\ ret = NoReturn
  /\ IdleProgram

NextRewrite == PgMigrateCall \/ SqlMigrateCall

SpecRewrite == InitRewrite /\ [][NextRewrite]_vars

IsRewriteCall ==
  call.fn \in {"PgQueryParser::migrate_shadow_table_statement",
               "SqlParser::migrate_shadow_table_statement"}

\* ------------------------------------------------------------ claims (SpecRewrite)
\* C19: the rewriter returns one statement per input statement, in order; in
\* each, the relation of an ALTER, DROP, CREATE (partition or not) or RENAME
\* and the parent of a PARTITION OF that is the base table, with or without a
\* schema prefix, is
\* the shadow table's schema and name; every other name and statement is as
\* it was in the input.
C19_RewritesEveryReference ==
  ret.done /\ IsRewriteCall =>
    LET sql == call.args.sql
        tn == call.args.table_name
        out == ret.value.stmts
    IN  /\ ret.value.ok
        /\ Len(out) = Len(sql)
        /\ \A i \in 1..Len(sql) :
             /\ out[i].kind = sql[i].kind
             /\ out[i].rel = IF sql[i].kind # "other" /\ sql[i].rel = tn
                             THEN ShadowName(tn) ELSE Deparse(sql[i]).rel
             /\ out[i].parent = IF sql[i].kind = "partition_of" /\ sql[i].parent = tn
                                THEN ShadowName(tn) ELSE Deparse(sql[i]).parent

\* ------------------------------------------------------------ column map
\* The column lists get_columns returns for the main and the shadow table:
\* sequences of distinct names.
MaxCols == 3
ColNames == {"id", "foo", "bar", "baz"}
ColumnLists ==
  {cols \in UNION {[1..n -> ColNames] : n \in 0..MaxCols} :
     \A i, j \in 1..Len(cols) : i # j => cols[i] # cols[j]}

\* Option<String>: None is the empty sequence, Some(c) is <<c>>
None == <<>>
Some(c) == <<c>>

\* the columns of xs that ys does not contain, in the order of xs
Unmatched(xs, ys) ==
  LET Missing(c) == c \notin Range(ys)
  IN  SelectSeq(xs, Missing)

\* a map that pairs an unmatched main column with the first unmatched shadow
\* column whenever there is one
ColumnMapNewPairsAny(main_cols, shadow_cols) ==
  LET unmatched_shadow == Unmatched(shadow_cols, main_cols)
  IN  [i \in 1..Len(main_cols) |->
         [main   |-> main_cols[i],
          shadow |-> IF main_cols[i] \in Range(shadow_cols) THEN Some(main_cols[i])
                     ELSE IF Len(unmatched_shadow) >= 1 THEN Some(unmatched_shadow[1])
                     ELSE None]]

\* ColumnMap::new
ColumnMapNew(main_cols, shadow_cols) ==
  LET unmatched_main == Unmatched(main_cols, shadow_cols)
      unmatched_shadow == Unmatched(shadow_cols, main_cols)
  IN  [i \in 1..Len(main_cols) |->
         [main   |-> main_cols[i],
          shadow |-> IF main_cols[i] \in Range(shadow_cols) THEN Some(main_cols[i])
                     ELSE IF /\ Len(unmatched_main) = 1
                             /\ Len(unmatched_shadow) = 1
                             /\ unmatched_main[1] = main_cols[i]
                          THEN Some(unmatched_shadow[1])
                          ELSE None]]

ColumnMapNewCall ==
  Returns("ColumnMap::new", ColumnMapNew(call.args.main_cols, call.args.shadow_cols))

InitColumnMap ==
  /\ call \in [fn : {"ColumnMap::new"},
               args : [main_cols : ColumnLists, shadow_cols : ColumnLists]]
  /\ ret = NoReturn
  /\ IdleProgram

NextColumnMap == ColumnMapNewCall

SpecColumnMap == InitColumnMap /\ [][NextColumnMap]_vars

\* ------------------------------------------------------------ claims (SpecColumnMap)
\* C20: the column map has one entry per main column, in order; a column with
\* a same-named shadow column maps to itself; with exactly one unmatched main
\* column and exactly one unmatched shadow column the unmatched main column
\* maps to the unmatched shadow column; with two or more unmatched main
\* columns, or no unmatched shadow column, an unmatched main column maps to
\* None.
C20_ColumnMapCases ==
  ret.done /\ call.fn = "ColumnMap::new" =>
    LET main_cols == call.args.main_cols
        shadow_cols == call.args.shadow_cols
        onlyMain == Range(main_cols) \ Range(shadow_cols)
        onlyShadow == Range(shadow_cols) \ Range(main_cols)
        map == ret.value
    IN  /\ Len(map) = Len(main_cols)
        /\ \A i \in 1..Len(main_cols) :
             /\ map[i].main = main_cols[i]
             /\ main_cols[i] \in Range(shadow_cols) => map[i].shadow = Some(main_cols[i])
             /\ main_cols[i] \in onlyMain /\ Cardinality(onlyMain) = 1
                  /\ Cardinality(onlyShadow) = 1
                  => \E c \in onlyShadow : map[i].shadow = Some(c)
             /\ main_cols[i] \in onlyMain
                  /\ (Cardinality(onlyMain) >= 2 \/ onlyShadow = {})
                  => map[i].shadow = None

\* a rename next to a kept column: one unmatched column on each side
C20_Witness ==
  /\ ret.done
  /\ call.fn = "ColumnMap::new"
  /\ \E i, j \in 1..Len(ret.value) :
       /\ ret.value[i].shadow = Some(ret.value[i].main)
       /\ ret.value[j].shadow # None
       /\ ret.value[j].shadow # Some(ret.value[j].main)

\* ------------------------------------------------------------ Lsn
\* A u64 is kept as its 16 hexadecimal digits, most significant first, so that
\* shifts, masks and the bitwise or act on all 64 bits.  A string is a
\* sequence of one-character strings.
HexChars == <<"0", "1", "2", "3", "4", "5", "6", "7",
              "8", "9", "A", "B", "C", "D", "E", "F">>
HexWidth == 16
HalfWidth == 8
HexPos == 1..HexWidth
U64Zero == [i \in HexPos |-> 0]

\* self.0 >> 32
Shr32(v) == [i \in HexPos |-> IF i <= HalfWidth THEN 0 ELSE v[i - HalfWidth]]

\* self.0 & 0xFFFFFFFF
Low32(v) == [i \in HexPos |-> IF i <= HalfWidth THEN 0 ELSE v[i]]

\* hi << 32: the upper 32 bits fall off
Shl32(v) == [i \in HexPos |-> IF i <= HalfWidth THEN v[i + HalfWidth] ELSE 0]

\* hi << 16, the shift of a 32-bit split done wrong
Shl16(v) == [i \in HexPos |-> IF i <= HexWidth - 4 THEN v[i + 4] ELSE 0]

Bit(d, b) == (d \div (2 ^ b)) % 2
OrDigit(x, y) ==
  LET B(b) == IF Bit(x, b) = 1 \/ Bit(y, b) = 1 THEN 2 ^ b ELSE 0
  IN  B(0) + B(1) + B(2) + B(3)

\* a | b
BitOr(a, b) == [i \in HexPos |-> OrDigit(a[i], b[i])]

\* format!("{:X}", v): upper-case digits without leading zeros, "0" for zero
FormatHex(v) ==
  LET nz == {i \in HexPos : v[i] # 0}
  IN  IF nz = {} THEN <<"0">>
      ELSE LET first == CHOOSE i \in nz : \A j \in nz : i <= j
           IN  [k \in 1..(HexWidth - first + 1) |-> HexChars[v[first + k - 1] + 1]]

HexValue(c) == (CHOOSE i \in 1..16 : HexChars[i] = c) - 1

\* u64::from_str_radix(s, 16): None on an empty string, on a character that
\* is no digit, and on a value that does not fit 64 bits
ParseHex(s) ==
  IF s = <<>> \/ \E i \in 1..Len(s) : s[i] \notin Range(HexChars) THEN None
  ELSE LET nz == {i \in 1..Len(s) : s[i] # "0"}
       IN  IF nz = {} THEN Some(U64Zero)
           ELSE LET first == CHOOSE i \in nz : \A j \in nz : i <= j
                    n == Len(s) - first + 1
                IN  IF n > HexWidth THEN None
                    ELSE Some([i \in HexPos |->
                                 IF i <= HexWidth - n THEN 0
                                 ELSE HexValue(s[Len(s) - HexWidth + i])])

\* s.split('/'): the parts of s between the separators
RECURSIVE SplitSlash(_)
SplitSlash(s) ==
  LET slashes == {i \in 1..Len(s) : s[i] = "/"}
  IN  IF slashes = {} THEN <<s>>
      ELSE LET first == CHOOSE i \in slashes : \A j \in slashes : i <= j
           IN  <<SubSeq(s, 1, first - 1)>> \o SplitSlash(SubSeq(s, first + 1, Len(s)))

\* Lsn::to_pg_string
to_pg_string(v) == FormatHex(Shr32(v)) \o <<"/">> \o FormatHex(Low32(v))

\* a parser that puts the high part 16 bits up instead of 32
from_pg_string_shl16(s) ==
  LET parts == SplitSlash(s)
  IN  IF Len(parts) < 2 THEN None
      ELSE LET hi == ParseHex(parts[1])
               lo == ParseHex(parts[2])
           IN  IF hi = None \/ lo = None THEN None
               ELSE Some(BitOr(Shl16(hi[1]), lo[1]))

\* Lsn::from_pg_string
from_pg_string(s) ==
  LET parts == SplitSlash(s)
  IN  IF Len(parts) < 2 THEN None
      ELSE LET hi == ParseHex(parts[1])
               lo == ParseHex(parts[2])
           IN  IF hi = None \/ lo = None THEN None
               ELSE Some(BitOr(Shl32(hi[1]), lo[1]))

\* the 64-bit values the functions are called on: both halves drawn from
\* short digit strings placed at the low and at the high end of the half,
\* and the half 016B6C50
MaxHexDigits == 2
SampleDigits == {0, 1, 11, 15}
ShortDigits == UNION {[1..n -> SampleDigits] : n \in 1..MaxHexDigits}
HalfSamples ==
  {[i \in 1..HalfWidth |-> IF i <= HalfWidth - Len(d) THEN 0 ELSE d[i - (HalfWidth - Len(d))]] :
     d \in ShortDigits}
    \cup {[i \in 1..HalfWidth |-> IF i <= Len(d) THEN d[i] ELSE 0] : d \in ShortDigits}
    \cup {<<0, 1, 6, 11, 6, 12, 5, 0>>}
LsnSamples == {hi \o lo : hi \in HalfSamples, lo \in HalfSamples}

\* 0x16B6C50 and its text
Lsn16B6C50 == <<0, 0, 0, 0, 0, 0, 0, 0, 0, 1, 6, 11, 6, 12, 5, 0>>
Text16B6C50 == <<"0", "/", "1", "6", "B", "6", "C", "5", "0">>

LsnToPgStringCall == Returns("Lsn::to_pg_string", to_pg_string(call.args))

\* the text just produced is handed to the parser
LsnFromPgStringCall ==
  /\ call.fn = "Lsn::to_pg_string"
  /\ ret.done
  /\ call' = [fn |-> "Lsn::from_pg_string", args |-> ret.value, lsn |-> call.args]
  /\ ret' = [done |-> TRUE, value |-> from_pg_string(ret.value)]
  /\ UNCHANGED <<dbVars, orchVars, bfVars, rpVars, clVars, apVars, lrVars, stVars>>

InitLsn ==
  /\ call \in [fn : {"Lsn::to_pg_string"}, args : LsnSamples]
  /\ ret = NoReturn
  /\ IdleProgram

NextLsn == LsnToPgStringCall \/ LsnFromPgStringCall

SpecLsn == InitLsn /\ [][NextLsn]_vars

\* ------------------------------------------------------------ claims (SpecLsn)
\* C21: parsing the text of any Lsn gives that Lsn back; the text of
\* Lsn(0x16B6C50) is 0/16B6C50, and that text parses to Lsn(0x16B6C50).
C21_LsnRoundTrip ==
  /\ ret.done /\ call.fn = "Lsn::from_pg_string" => ret.value = Some(call.lsn)
  /\ ret.done /\ call.fn = "Lsn::to_pg_string" /\ call.args = Lsn16B6C50 =>
       ret.value = Text16B6C50
  /\ ret.done /\ call.fn = "Lsn::from_pg_string" /\ call.args = Text16B6C50 =>
       ret.value = Some(Lsn16B6C50)

\* a value with bits set in the upper and the lower half has come back
C21_Witness ==
  /\ ret.done
  /\ call.fn = "Lsn::from_pg_string"
  /\ ret.value = Some(call.lsn)
  /\ Shr32(call.lsn) # U64Zero
  /\ Low32(call.lsn) # U64Zero
  /\ call.lsn[1] # 0

\* ------------------------------------------------------------ run_migrate
\* MigrationRunner::run_migrate for the trigger and the polled logical mode:
\* run_schema_migration, run_replay_setup, then orchestrate with the replay
\* of the selected mode, followed up to the join of the backfill thread.

\* run_schema_migration: Migration::new, setup_migration (the shadow table)
RunSchemaMigration ==
  /\ orchPc = "run_schema_migration"
  /\ shadowExists' = TRUE
  /\ shadow' = EmptyTable
  /\ orchPc' = "run_replay_setup"
  /\ UNCHANGED <<T, log, nextSeq, trig, logExists, swapped, oldExists, installed>>
  /\ UNCHANGED <<execute, mode, stop_replay, tx, cutoverBegin>>
  /\ UNCHANGED <<bfVars, rpVars, clVars, apVars, fnVars, stVars, lrVars>>

\* run_replay_setup: LogTableReplay::setup whatever the mode
RunReplaySetup ==
  /\ orchPc = "run_replay_setup"
  /\ trig' = TRUE
  /\ logExists' = TRUE
  /\ installed' = installed \cup TriggerObjects
  /\ orchPc' = "replay_setup"
  /\ UNCHANGED <<T, shadow, log, nextSeq, shadowExists, swapped, oldExists>>
  /\ UNCHANGED <<execute, mode, stop_replay, tx, cutoverBegin>>
  /\ UNCHANGED <<bfVars, rpVars, clVars, apVars, fnVars, stVars, lrVars>>

\* orchestrate(execute, column_map, replay), first step: Replay.setup() of
\* the replay handed in (LogTableReplay::setup can be run again:
\* IF NOT EXISTS, OR REPLACE, DROP TRIGGER IF EXISTS)
OrchReplaySetup ==
  /\ orchPc = "replay_setup"
  /\ IF mode = "Log"
     THEN /\ installed' = installed \cup TriggerObjects
          /\ UNCHANGED <<slotExists, pubExists>>
     ELSE /\ installed' = installed \cup LogicalObjects
          /\ slotExists' = TRUE
          /\ pubExists' = TRUE
  /\ orchPc' = "spawn"
  /\ UNCHANGED <<T, shadow, log, nextSeq, trig, logExists, shadowExists, swapped, oldExists>>
  /\ UNCHANGED <<execute, mode, stop_replay, tx, cutoverBegin>>
  /\ UNCHANGED <<slot, lrResult, lrBatch, attempted>>
  /\ UNCHANGED <<bfVars, rpVars, clVars, apVars, fnVars, stVars>>

\* the replay thread's call in trigger mode
RpTriggerReplayLog == mode = "Log" /\ RpReplayLog

\* the replay thread's call in logical mode; get_changes on a slot that does
\* not exist is an error
RpLogicalReplayLog ==
  /\ mode = "Logical"
  /\ rpPc = "call"
  /\ IF slotExists
     THEN LET r == logical_replay_log(slot, shadow, T)
          IN /\ slot' = r.slot
             /\ shadow' = r.shadow
             /\ rpResult' = IF r.ok THEN "ok" ELSE "err"
             /\ lrBatch' = r.rows
     ELSE /\ rpResult' = "err"
          /\ UNCHANGED <<slot, shadow, lrBatch>>
  /\ rpPc' = "sleep"
  /\ UNCHANGED <<T, log, nextSeq, trig, logExists, shadowExists, swapped, oldExists, installed>>
  /\ UNCHANGED <<slotExists, pubExists, lrResult, attempted, rpBatch>>
  /\ UNCHANGED <<orchVars, bfVars, clVars, apVars, fnVars, stVars>>

InitRunMigrate ==
  /\ T \in InitTables
  /\ shadow = EmptyTable
  /\ shadowExists = FALSE
  /\ log = <<>>
  /\ nextSeq = 1
  /\ trig = FALSE
  /\ logExists = FALSE
  /\ swapped = FALSE
  /\ oldExists = FALSE
  /\ installed = {}
  /\ execute = FALSE
  /\ mode \in {"Log", "Logical"}
  /\ stop_replay = FALSE
  /\ orchPc = "run_schema_migration"
  /\ tx = NoTx
  /\ cutoverBegin = NoSnapshot
  /\ batch_size \in 1..MaxBatch
  /\ bfPc = "unborn"
  /\ last_seen_id = <<>>
  /\ bfReturned = <<>>
  /\ rpPc = "unborn"
  /\ rpResult = "none"
  /\ rpBatch = <<>>
  /\ writesLeft = MaxWrites
  /\ everDeleted = {}
  /\ IdleApply
  /\ IdleStream
  /\ IdleLogical

NextRunMigrate ==
  \/ RunSchemaMigration
  \/ RunReplaySetup
  \/ OrchReplaySetup
  \/ OrchSpawn
  \/ OrchJoinBackfill
  \/ ClientInsert
  \/ ClientUpdate
  \/ ClientDelete
  \/ BackfillBatch
  \/ RpCheck
  \/ RpTriggerReplayLog
  \/ RpLogicalReplayLog
  \/ RpSleep

SpecRunMigrate == InitRunMigrate /\ [][NextRunMigrate]_vars

\* the capture objects of the selected strategy are all in place
CaptureInstalled ==
  IF mode = "Log"
  THEN TriggerObjects \subseteq installed
  ELSE LogicalObjects \subseteq installed /\ slotExists /\ pubExists

AfterReplayJoin ==
  orchPc \in {"drain", "teardown", "swap", "commit", "done_exec",
              "dry_teardown", "done_dry", "err_cutover"}

\* C23: the stop flag is set only when the backfill thread has finished, the
\* cutover transaction and the dry-run teardown begin only when the replay
\* thread has exited, and no replay_log call of the thread runs while the
\* final drain consumes events.
C23_JoinBeforeStopAndCutover ==
  /\ [][~stop_replay /\ stop_replay' => bfPc = "done"]_vars
  /\ [](AfterReplayJoin => rpPc = "exited")
  /\ [](orchPc = "drain" => rpPc # "call")

\* the thread consumed events, then the final drain consumed more
C23_Witness ==
  /\ orchPc = "drain"
  /\ tx.consumed > 0
  /\ rpBatch # <<>>

\* the batch the replay thread last fetched holds INSERT events only, one of
\* them for a key the backfill had copied
InsertBatchAfterBackfill ==
  /\ rpBatch # <<>>
  /\ \A i \in 1..Len(rpBatch) : rpBatch[i].op = "INSERT"
  /\ \E i \in 1..Len(rpBatch) : rpBatch[i].pk \in Range(bfReturned)

\* C24: a replay batch with the INSERT event of a key that the backfill
\* copied first commits all the same, so that the events behind it are
\* applied and the log drains.
C24_ReplayCommitsAfterBackfillCopy ==
  rpPc = "sleep" /\ InsertBatchAfterBackfill => rpResult = "ok"

\* ------------------------------------------------------------ trigger capture alone
\* Clients of T with the three triggers installed, no migration step running.

\* UPDATE T SET id = k2 WHERE id = k: the update trigger logs NEW.id
ClientUpdatePk ==
  /\ ClientCanWrite
  /\ \E k \in Keys, k2 \in Keys :
       /\ Has(T, k)
       /\ ~Has(T, k2)
       /\ T' = Put(Del(T, k), k2, T[k])
       /\ Captured("UPDATE", k2)
  /\ writesLeft' = writesLeft - 1
  /\ UNCHANGED <<shadow, trig, logExists, shadowExists, swapped, oldExists, installed, everDeleted>>
  /\ UNCHANGED <<orchVars, bfVars, rpVars, apVars, fnVars, stVars, lrVars>>

\* a statement on T whose transaction rolls back: the row change and the log
\* row the trigger wrote are undone together; the value drawn from the log
\* table's sequence is not given back
ClientRollback ==
  /\ ClientCanWrite
  /\ \E op \in Ops :
       nextSeq' = IF TriggerFor(op) \in installed THEN nextSeq + 1 ELSE nextSeq
  /\ writesLeft' = writesLeft - 1
  /\ UNCHANGED <<T, shadow, log, trig, logExists, shadowExists, swapped, oldExists, installed, everDeleted>>
  /\ UNCHANGED <<orchVars, bfVars, rpVars, apVars, fnVars, stVars, lrVars>>

InitTrigger ==
  /\ T \in Tables
  /\ shadow = EmptyTable
  /\ shadowExists = TRUE
  /\ log = <<>>
  /\ nextSeq = 1
  /\ trig = TRUE
  /\ logExists = TRUE
  /\ swapped = FALSE
  /\ oldExists = FALSE
  /\ installed = TriggerObjects
  /\ execute = FALSE
  /\ mode = "Log"
  /\ stop_replay = FALSE
  /\ orchPc = "capturing"
  /\ tx = NoTx
  /\ cutoverBegin = NoSnapshot
  /\ batch_size = 1
  /\ bfPc = "unborn"
  /\ last_seen_id = <<>>
  /\ bfReturned = <<>>
  /\ rpPc = "unborn"
  /\ rpResult = "none"
  /\ rpBatch = <<>>
  /\ writesLeft = MaxWrites
  /\ everDeleted = {}
  /\ IdleApply
  /\ IdleStream
  /\ IdleLogical

NextTrigger ==
  \/ ClientInsert
  \/ ClientUpdate
  \/ ClientDelete
  \/ ClientUpdatePk
  \/ ClientRollback

SpecTrigger == InitTrigger /\ [][NextTrigger]_vars

\* ------------------------------------------------------------ claims (SpecTrigger)
\* C25: with the triggers installed, a committed statement that inserts,
\* updates or deletes a row of T appends exactly one row to the log table,
\* with the operation and the key of the row (the new key for an insert and
\* an update, the old key for a delete); a statement that is rolled back
\* leaves the log as it was.
C25_OneLogRowPerMutation ==
  [][LET added == DOMAIN T' \ DOMAIN T
         removed == DOMAIN T \ DOMAIN T'
         last == log'[Len(log')]
     IN  /\ T' # T =>
              /\ Len(log') = Len(log) + 1
              /\ SubSeq(log', 1, Len(log)) = log
              /\ added # {} /\ removed = {} => last.op = "INSERT" /\ added = {last.pk}
              /\ added = {} /\ removed # {} => last.op = "DELETE" /\ removed = {last.pk}
              /\ added = {} /\ removed = {} =>
                   last.op = "UPDATE" /\ Has(T, last.pk) /\ T'[last.pk] # T[last.pk]
              /\ added # {} /\ removed # {} => last.op = "UPDATE" /\ added = {last.pk}
         /\ T' = T => log' = log]_vars

\* an update and a delete are in the log and a statement was rolled back
C25_Witness ==
  /\ {log[i].op : i \in 1..Len(log)} = {"UPDATE", "DELETE"}
  /\ nextSeq > Len(log) + 1

\* ------------------------------------------------------------ the order of a fetched batch
\* fetch_batch runs DELETE .. WHERE id IN (SELECT id .. ORDER BY id ASC LIMIT n)
\* RETURNING *.  The subquery picks the n smallest ids; the DELETE itself has
\* no ordering, so the rows come back in whatever order the plan visits them
\* and replay_log applies them as they come.
Perms(rows) ==
  {[i \in 1..Len(rows) |-> rows[f[i]]] :
     f \in {g \in [1..Len(rows) -> 1..Len(rows)] :
              \A i, j \in 1..Len(rows) : i # j => g[i] # g[j]}}

fetch_batch_returning(lg, n) == Perms(fetch_batch(lg, n))

\* LogTableReplay::replay_log on the rows in the order they were returned
RpReplayLogReturned ==
  /\ rpPc = "call"
  /\ \E rows \in fetch_batch_returning(log, ReplayBatch) :
       LET res == ApplyStmts(batch2sql(rows), shadow, T)
       IN /\ rpBatch' = rows
          /\ IF res.ok
             THEN /\ log' = Drop_n(log, Len(rows))
                  /\ shadow' = res.shadow
                  /\ rpResult' = "ok"
             ELSE /\ UNCHANGED <<log, shadow>>
                  /\ rpResult' = "err"
  /\ rpPc' = "sleep"
  /\ UNCHANGED <<T, nextSeq, trig, logExists, shadowExists, swapped, oldExists, installed>>
  /\ UNCHANGED <<orchVars, bfVars, clVars, apVars, fnVars, stVars, lrVars>>

InitFetch ==
  /\ T \in InitTables
  /\ shadow \in {EmptyTable, T}
  /\ shadowExists = TRUE
  /\ log = <<>>
  /\ nextSeq = 1
  /\ trig = TRUE
  /\ logExists = TRUE
  /\ swapped = FALSE
  /\ oldExists = FALSE
  /\ installed = TriggerObjects
  /\ execute = FALSE
  /\ mode = "Log"
  /\ stop_replay = FALSE
  /\ orchPc = "capturing"
  /\ tx = NoTx
  /\ cutoverBegin = NoSnapshot
  /\ batch_size = 1
  /\ bfPc = "unborn"
  /\ last_seen_id = <<>>
  /\ bfReturned = <<>>
  /\ rpPc = "check"
  /\ rpResult = "none"
  /\ rpBatch = <<>>
  /\ writesLeft = MaxWrites
  /\ everDeleted = {}
  /\ IdleApply
  /\ IdleStream
  /\ IdleLogical

NextFetch ==
  \/ ClientInsert
  \/ ClientUpdate
  \/ ClientDelete
  \/ RpCheck
  \/ RpReplayLogReturned
  \/ RpSleep

SpecFetch == InitFetch /\ [][NextFetch]_vars

\* ------------------------------------------------------------ claims (SpecFetch)
\* C26: a replay_log call takes at most the batch limit of rows, the ones
\* with the smallest seq in the log, applies them in ascending seq order and,
\* when it commits, leaves exactly the rows with larger seq in the log.
C26_BatchInSeqOrder ==
  [][rpPc = "call" /\ rpPc' = "sleep" =>
       /\ Len(rpBatch') <= ReplayBatch
       /\ Range(rpBatch') = Range(Head_n(log, ReplayBatch))
       /\ \A i, j \in 1..Len(rpBatch') : i < j => rpBatch'[i].seq < rpBatch'[j].seq
       /\ rpResult' = "ok" => log' = Drop_n(log, ReplayBatch)]_vars

\* ------------------------------------------------------------ replay_log_until_complete
\* The final drain of each replay variant, called inside a transaction after
\* clients have produced events; no client writes while it runs.

DrainClientInsert == orchPc = "capturing" /\ ClientInsert
DrainClientUpdate == orchPc = "capturing" /\ ClientUpdate
DrainClientDelete == orchPc = "capturing" /\ ClientDelete

\* the events not yet consumed, as the open transaction sees them
Pending == IF mode = "Log" THEN Drop_n(log, tx.consumed) ELSE slot

\* client.transaction(); replay.replay_log_until_complete(&mut transaction)
DrainBegin ==
  /\ orchPc = "capturing"
  /\ orchPc' = "drain"
  /\ tx' = [consumed |-> 0, shadow |-> shadow]
  /\ cutoverBegin' = [log |-> Pending, shadow |-> shadow]
  /\ UNCHANGED <<dbVars, execute, mode, stop_replay>>
  /\ UNCHANGED <<bfVars, rpVars, clVars, apVars, fnVars, stVars, lrVars>>

\* LogTableReplay::replay_log_until_complete, one round of the loop
DrainLog == mode = "Log" /\ OrchDrain

\* LogicalReplay::replay_log_until_complete, one round of the loop: the slot
\* is advanced by get_changes, the statements run in the transaction
DrainLogical ==
  /\ mode = "Logical"
  /\ orchPc = "drain"
  /\ LET got == get_changes(slot, ReplayBatch)
         res == ApplyStmts(wal2json2sql(got.rows), tx.shadow, T)
     IN /\ slot' = got.slot
        /\ lrBatch' = got.rows
        /\ IF got.rows = <<>>
           THEN orchPc' = "teardown" /\ UNCHANGED tx
           ELSE IF res.ok
           THEN orchPc' = "drain" /\ tx' = [consumed |-> tx.consumed + Len(got.rows), shadow |-> res.shadow]
           ELSE orchPc' = "err_cutover" /\ tx' = NoTx
  /\ UNCHANGED <<dbVars, execute, mode, stop_replay, cutoverBegin>>
  /\ UNCHANGED <<slotExists, pubExists, lrResult, attempted>>
  /\ UNCHANGED <<bfVars, rpVars, clVars, apVars, fnVars, stVars>>

\* StreamingLogicalReplay::replay_log_until_complete: Ok(()) at once
DrainStreaming ==
  /\ mode = "StreamingLogical"
  /\ orchPc = "drain"
  /\ orchPc' = "teardown"
  /\ UNCHANGED <<dbVars, execute, mode, stop_replay, tx, cutoverBegin>>
  /\ UNCHANGED <<bfVars, rpVars, clVars, apVars, fnVars, stVars, lrVars>>

InitDrain ==
  /\ T \in InitTables
  /\ shadow = T
  /\ shadowExists = TRUE
  /\ log = <<>>
  /\ nextSeq = 1
  /\ mode \in ReplayModes
  /\ trig = (mode = "Log")
  /\ logExists = (mode = "Log")
  /\ installed = IF mode = "Log" THEN TriggerObjects ELSE LogicalObjects
  /\ slotExists = (mode # "Log")
  /\ pubExists = (mode # "Log")
  /\ slot = <<>>
  /\ lrResult = "none"
  /\ lrBatch = <<>>
  /\ attempted = {}
  /\ swapped = FALSE
  /\ oldExists = FALSE
  /\ execute = TRUE
  /\ stop_replay = TRUE
  /\ orchPc = "capturing"
  /\ tx = NoTx
  /\ cutoverBegin = NoSnapshot
  /\ batch_size = 1
  /\ bfPc = "done"
  /\ last_seen_id = <<>>
  /\ bfReturned = <<>>
  /\ rpPc = "exited"
  /\ rpResult = "none"
  /\ rpBatch = <<>>
  /\ writesLeft = MaxWrites
  /\ everDeleted = {}
  /\ IdleApply
  /\ IdleStream

NextDrain ==
  \/ DrainClientInsert
  \/ DrainClientUpdate
  \/ DrainClientDelete
  \/ DrainBegin
  \/ DrainLog
  \/ DrainLogical
  \/ DrainStreaming

SpecDrain == InitDrain /\ [][NextDrain]_vars

\* the statements of all events that were pending when the drain was called
PendingAtCall ==
  IF mode = "Log" THEN batch2sql(cutoverBegin.log) ELSE wal2json2sql(cutoverBegin.log)

\* ------------------------------------------------------------ claims (SpecDrain)
\* C27: when replay_log_until_complete has returned Ok, no captured event is
\* pending and the shadow table, as the transaction sees it, is what applying
\* every event pending at the call gives.
C27_DrainLeavesNothingPending ==
  orchPc = "teardown" =>
    /\ Pending = <<>>
    /\ tx.shadow = ApplyStmts(PendingAtCall, cutoverBegin.shadow, T).shadow

\* ------------------------------------------------------------ the replay thread and its stop flag
\* stop_replay.store(true, Ordering::Relaxed), by orchestrate or by the
\* signal handler, at any moment of the thread's loop
SetStop ==
  /\ ~stop_replay
  /\ rpPc # "unborn"
  /\ stop_replay' = TRUE
  /\ UNCHANGED <<dbVars, execute, mode, orchPc, tx, cutoverBegin>>
  /\ UNCHANGED <<bfVars, rpVars, clVars, apVars, fnVars, stVars, lrVars>>

NextThread ==
  \/ ClientInsert
  \/ ClientUpdate
  \/ ClientDelete
  \/ RpCheck
  \/ RpReplayLog
  \/ RpSleep
  \/ SetStop

\* the thread is scheduled: each step of its loop is eventually taken
SpecThread ==
  /\ InitFetch
  /\ [][NextThread]_vars
  /\ WF_vars(RpCheck)
  /\ WF_vars(RpReplayLog)
  /\ WF_vars(RpSleep)

\* ------------------------------------------------------------ claims (SpecThread)
\* C28: once the stop flag is set the loop condition never admits another
\* replay_log call, so the thread exits after at most the call and the sleep
\* it was in, whatever the call returned; the thread exits only when the flag
\* is set, and after a replay_log that returned Err it sleeps and polls again.
C28_StopEndsThreadErrorsDoNot ==
  /\ [][stop_replay /\ rpPc = "check" => rpPc' # "call"]_vars
  /\ [][rpPc = "sleep" => rpPc' \in {"sleep", "check"}]_vars
  /\ [](rpPc = "exited" => stop_replay)
  /\ (stop_replay ~> rpPc = "exited")

\* the thread is calling replay_log again after a call that returned Err
C28_Witness ==
  /\ rpPc = "call"
  /\ rpResult = "err"
  /\ ~stop_replay

\* ------------------------------------------------------------ replication stream
MaxLsn == 3          \* wal positions are 0..MaxLsn
MaxFrames == 3       \* CopyData frames the server sends per behaviour
MaxCalls == 3        \* streaming replay_log calls per behaviour

Lsns == 0..MaxLsn

\* payload of an XLogData frame: the wal2json document of an INSERT of a row
\* of T, or bytes that serde_json does not accept
Payloads ==
  {[json |-> TRUE, doc |-> [change |-> <<[kind |-> "insert", columnvalues |-> <<k, 1>>, oldkeys |-> <<>>]>>]] : k \in {1}}
    \cup {[json |-> FALSE]}

\* a CopyData buffer, by what ReplicationMessage::parse reads of it: the first
\* byte, and the header fields when the buffer is long enough to hold them
Frames ==
  [tag : {"w"}, wal_end : Lsns, data : Payloads]
    \cup [tag : {"k"}, wal_end : Lsns, reply_requested : BOOLEAN]
    \cup {[tag |-> "x"], [tag |-> "short"]}

\* ReplicationMessage::parse: None for an empty buffer and for a 'w' or 'k'
\* frame shorter than its header, Unknown for any other first byte
parse(buf) ==
  CASE buf.tag = "short" -> None
    [] buf.tag = "w" -> Some([kind |-> "XLogData", wal_end |-> buf.wal_end, data |-> buf.data])
    [] buf.tag = "k" -> Some([kind |-> "PrimaryKeepAlive", wal_end |-> buf.wal_end,
                              reply_requested |-> buf.reply_requested])
    [] OTHER -> Some([kind |-> "Unknown"])

\* the body of next_batch's loop over the frames copy_data returned, in order
RECURSIVE ReadFrames(_, _, _)
ReadFrames(lsn, msgs, bufs) ==
  IF bufs = <<>> THEN [last_lsn |-> lsn, messages |-> msgs]
  ELSE LET rep_msg == parse(Head(bufs))
       IN IF rep_msg = None THEN ReadFrames(lsn, msgs, Tail(bufs))
          ELSE ReadFrames(IF rep_msg[1].kind = "XLogData" THEN rep_msg[1].wal_end ELSE lsn,
                          Append(msgs, rep_msg[1]), Tail(bufs))

\* LogicalReplicationStream::next_batch: the loop reads a frame while fewer
\* than max_messages messages are collected, and ends on a copy_data error or
\* once the timeout has elapsed, so after any number of frames
next_batch(lsn, incoming, max_messages) ==
  LET Read(n) == ReadFrames(lsn, <<>>, SubSeq(incoming, 1, n))
      Stops == {n \in 0..Len(incoming) : n = 0 \/ Len(Read(n - 1).messages) < max_messages}
  IN {[last_lsn |-> Read(n).last_lsn, messages |-> Read(n).messages,
       rest |-> SubSeq(incoming, n + 1, Len(incoming))] : n \in Stops}

\* LogicalReplicationStream::send_feedback: the standby status update frame
send_feedback(confirmed_lsn) ==
  [tag |-> "r", wal_write |-> confirmed_lsn, wal_flush |-> confirmed_lsn,
   wal_apply |-> confirmed_lsn, reply_requested |-> TRUE]

\* the wal2json values of the XLogData messages whose payload is JSON
JsonBatch(msgs) ==
  LET xlog == SelectSeq(msgs, LAMBDA m : m.kind = "XLogData" /\ m.data.json)
  IN [i \in 1..Len(xlog) |-> xlog[i].data.doc]

\* a keepalive of the batch has reply_requested set
ReplyRequested(msgs) ==
  \E i \in 1..Len(msgs) : msgs[i].kind = "PrimaryKeepAlive" /\ msgs[i].reply_requested

\* the statements of the batch run in the order of its messages and stop at
\* the first failure: the wal_end of the last XLogData message before it
\* (a payload that is not JSON has no statement to fail)
RECURSIVE AppliedEnd(_, _, _, _)
AppliedEnd(msgs, sh, t, lsn) ==
  IF msgs = <<>> THEN lsn
  ELSE IF Head(msgs).kind # "XLogData" THEN AppliedEnd(Tail(msgs), sh, t, lsn)
  ELSE LET r == ApplyStmts(wal2json2sql(JsonBatch(<<Head(msgs)>>)), sh, t)
       IN IF r.ok THEN AppliedEnd(Tail(msgs), r.shadow, t, Head(msgs).wal_end)
          ELSE lsn

\* StreamingLogicalReplay::replay_log: next_batch, the statements of the batch
\* one by one on the plain client (the first failure returns the error), then
\* send_feedback(last_lsn)
StreamingReplayLog ==
  /\ calls < MaxCalls
  /\ \E got \in next_batch(last_lsn, conn.incoming, ReplayBatch) :
       LET res == ApplyStmts(wal2json2sql(JsonBatch(got.messages)), shadow, T)
       IN /\ last_lsn' = got.last_lsn
          /\ messages' = got.messages
          /\ shadow' = res.shadow
          /\ slResult' = IF res.ok THEN "ok" ELSE "err"
          /\ conn' = [incoming |-> got.rest,
                      outgoing |-> IF res.ok
                                   THEN Append(conn.outgoing, send_feedback(got.last_lsn))
                                   ELSE conn.outgoing]
          /\ replyOwed' = IF res.ok THEN FALSE
                          ELSE replyOwed \/ ReplyRequested(got.messages)
          /\ applied' = AppliedEnd(got.messages, shadow, T, applied)
  /\ calls' = calls + 1
  /\ UNCHANGED framesLeft
  /\ UNCHANGED <<T, log, nextSeq, trig, logExists, shadowExists, swapped, oldExists, installed>>
  /\ UNCHANGED <<orchVars, bfVars, rpVars, clVars, apVars, fnVars, lrVars>>

\* the server writes one more frame to the connection
WalSenderSend ==
  /\ framesLeft > 0
  /\ \E buf \in Frames : conn' = [conn EXCEPT !.incoming = Append(@, buf)]
  /\ framesLeft' = framesLeft - 1
  /\ UNCHANGED <<last_lsn, messages, slResult, replyOwed, calls, applied>>
  /\ UNCHANGED <<dbVars, orchVars, bfVars, rpVars, clVars, apVars, fnVars, lrVars>>

\* after StreamingLogicalReplay::setup: LogicalReplicationStream::new(start_lsn)
\* and start(); every row of T is in place and the shadow table is empty
InitStream ==
  /\ T = [k \in Keys |-> 1]
  /\ shadow = EmptyTable
  /\ shadowExists = TRUE
  /\ log = <<>>
  /\ nextSeq = 1
  /\ trig = FALSE
  /\ logExists = FALSE
  /\ swapped = FALSE
  /\ oldExists = FALSE
  /\ installed = LogicalObjects
  /\ execute = FALSE
  /\ mode = "StreamingLogical"
  /\ stop_replay = FALSE
  /\ orchPc = "capturing"
  /\ tx = NoTx
  /\ cutoverBegin = NoSnapshot
  /\ batch_size = 1
  /\ bfPc = "unborn"
  /\ last_seen_id = <<>>
  /\ bfReturned = <<>>
  /\ rpPc = "unborn"
  /\ rpResult = "none"
  /\ rpBatch = <<>>
  /\ writesLeft = 0
  /\ everDeleted = {}
  /\ IdleApply
  /\ slot = <<>>
  /\ slotExists = TRUE
  /\ pubExists = TRUE
  /\ lrResult = "none"
  /\ lrBatch = <<>>
  /\ attempted = {}
  /\ last_lsn \in Lsns
  /\ conn = NoConn
  /\ messages = <<>>
  /\ slResult = "none"
  /\ replyOwed = FALSE
  /\ calls = 0
  /\ framesLeft = MaxFrames
  /\ applied = last_lsn

NextStream == WalSenderSend \/ StreamingReplayLog

SpecStream == InitStream /\ [][NextStream]_vars

\* the wal_end of every XLogData message of a batch
XLogEnds(msgs) ==
  {msgs[i].wal_end : i \in {j \in 1..Len(msgs) : msgs[j].kind = "XLogData"}}

SetMax(S) == CHOOSE x \in S : \A y \in S : y <= x

\* ------------------------------------------------------------ claims (SpecStream)
\* C29: last_lsn never decreases, and after a next_batch it is the maximum of
\* its value before the call and the wal_end of every XLogData frame the call
\* received; a batch of keepalive and unknown frames leaves it unchanged.
C29_LastLsnIsMaximum ==
  /\ [][last_lsn' >= last_lsn]_vars
  /\ [][calls' # calls => last_lsn' = SetMax({last_lsn} \cup XLogEnds(messages'))]_vars

\* C30: no batch is pulled while a keepalive that asked for a reply is still
\* unanswered: a standby status update was sent since it was received.
C30_ReplyBeforeNextBatch == [][calls' # calls => ~replyOwed]_vars

\* C31: every standby status update confirms at most the wal_end of the last
\* change whose apply statements all succeeded, so a change that was received
\* and not applied is never confirmed.
C31_ConfirmsOnlyApplied ==
  [][Len(conn'.outgoing) > Len(conn.outgoing) =>
       conn'.outgoing[Len(conn'.outgoing)].wal_flush <= applied']_vars

\* ------------------------------------------------------------ claims (Spec), backfill error
\* C32: when orchestrate has returned the backfill's error, the stop flag is
\* set and the replay thread has exited.
C32_BackfillErrorStopsReplay ==
  orchPc = "err_backfill" => stop_replay /\ rpPc = "exited"

\* ------------------------------------------------------------ primary-key updates, replayed
\* the backfill has copied every row of T and the triggers are installed
InitBackfilled == InitFetch /\ shadow = T

NextPkUpdate ==
  \/ ClientUpdatePk
  \/ RpCheck
  \/ RpReplayLog
  \/ RpSleep

SpecPkUpdate == InitBackfilled /\ [][NextPkUpdate]_vars

\* ------------------------------------------------------------ claims (SpecPkUpdate)
\* C33: once every captured event of UPDATEs that changed a row's primary key
\* is replayed, the shadow table holds the row under its new key with T's
\* values and no row under the old key, that is, the rows of T.
C33_PkUpdateReplicated ==
  log = <<>> /\ rpPc # "call" => shadow = T

\* ------------------------------------------------------------ claims (SpecThread), update then delete
\* C34: a replay_log call whose batch is the UPDATE event and then the DELETE
\* event of a key that T no longer holds returns Ok and leaves the key absent
\* from the shadow table.
C34_UpdateThenDeleteReplays ==
  /\ rpPc = "sleep"
  /\ Len(rpBatch) = 2
  /\ rpBatch[1].op = "UPDATE"
  /\ rpBatch[2].op = "DELETE"
  /\ rpBatch[1].pk = rpBatch[2].pk
  /\ ~Has(T, rpBatch[1].pk)
  => rpResult = "ok" /\ ~Has(shadow, rpBatch[1].pk)

\* ------------------------------------------------------------ apply statements of captured events
MaxDocs == 2         \* wal2json documents (transactions) per batch
MaxChanges == 2      \* changes per wal2json document

\* the changes wal2json writes for row operations on T, and one of another kind
WalChanges ==
  {[kind |-> "insert", columnvalues |-> <<k, 1>>, oldkeys |-> <<>>] : k \in Keys}
    \cup {[kind |-> "update", columnvalues |-> <<k, 1>>, oldkeys |-> <<k, 1>>] : k \in Keys}
    \cup {[kind |-> "delete", columnvalues |-> <<>>, oldkeys |-> <<k, 1>>] : k \in Keys}
    \cup {[kind |-> "truncate", columnvalues |-> <<>>, oldkeys |-> <<>>]}

WalDocs == [change : UNION {[1..n -> WalChanges] : n \in 0..MaxChanges}]

WalBatches == UNION {[1..n -> WalDocs] : n \in 0..MaxDocs}

\* the captured events of a batch, in commit order: the kind of each change and
\* the key wal2json reports for it (oldkeys.keyvalues[0] of a delete,
\* columnvalues[0] of an insert or update)
Events(batch) ==
  LET cs == Changes(batch)
  IN [i \in 1..Len(cs) |->
        [kind |-> cs[i].kind,
         pk |-> IF cs[i].kind = "delete" THEN cs[i].oldkeys[1]
                ELSE IF cs[i].columnvalues = <<>> THEN NullPk ELSE cs[i].columnvalues[1]]]

\* the log rows the three row-level triggers write for the same events: one
\* row per INSERT, UPDATE or DELETE, none for any other kind
LogRows(events) ==
  LET rowOps == SelectSeq(events, LAMBDA e : e.kind \in {"insert", "update", "delete"})
  IN [i \in 1..Len(rowOps) |->
        [seq |-> i,
         op |-> CASE rowOps[i].kind = "insert" -> "INSERT"
                  [] rowOps[i].kind = "update" -> "UPDATE"
                  [] OTHER -> "DELETE",
         pk |-> rowOps[i].pk]]

Wal2Json2SqlCall == Returns("wal2json2sql", wal2json2sql(call.args))

\* the same events, as the trigger logged them, are handed to batch2sql
Batch2SqlCall ==
  /\ call.fn = "wal2json2sql"
  /\ ret.done
  /\ call' = [fn |-> "batch2sql", args |-> LogRows(Events(call.args)),
              batch |-> call.args, logical |-> ret.value]
  /\ ret' = [done |-> TRUE, value |-> batch2sql(LogRows(Events(call.args)))]
  /\ UNCHANGED <<dbVars, orchVars, bfVars, rpVars, clVars, apVars, lrVars, stVars>>

InitStatements ==
  /\ call \in [fn : {"wal2json2sql"}, args : WalBatches]
  /\ ret = NoReturn
  /\ IdleProgram

NextStatements == Wal2Json2SqlCall \/ Batch2SqlCall

SpecStatements == InitStatements /\ [][NextStatements]_vars

C36_OneApplyPath ==
  ret.done /\ call.fn = "batch2sql" => ret.value = call.logical

\* both produced an UPDATE and then a DELETE
C36_Witness ==
  /\ ret.done
  /\ call.fn = "batch2sql"
  /\ Len(ret.value) = 2
  /\ ret.value[1].kind = "UPDATE"
  /\ ret.value[2].kind = "DELETE"

\* ------------------------------------------------------------ LogTableReplay::setup, run twice
\* (mutant) the trigger batches without DROP TRIGGER IF EXISTS
SetupStatementsNoDrop(step) ==
  CASE step = "create_log_table" ->
         <<[ddl |-> "create_table_if_not_exists", name |-> "log_table"]>>
    [] OTHER ->
         <<[ddl |-> "create_or_replace_function", name |-> step \o "_fn"],
           [ddl |-> "create_trigger", name |-> step]>>

\* the statements of each call setup makes: simple_query for the log table,
\* one batch_execute per trigger
SetupStatements(step) ==
  CASE step = "create_log_table" ->
         <<[ddl |-> "create_table_if_not_exists", name |-> "log_table"]>>
    [] OTHER ->
         <<[ddl |-> "create_or_replace_function", name |-> step \o "_fn"],
           [ddl |-> "drop_trigger_if_exists", name |-> step],
           [ddl |-> "create_trigger", name |-> step]>>

\* one DDL statement on the objects that exist: IF NOT EXISTS leaves an
\* existing table and its rows alone, OR REPLACE replaces the function,
\* CREATE TRIGGER fails when T already has a trigger of that name
ExecDdl(stmt, objects) ==
  CASE stmt.ddl = "create_table_if_not_exists" -> [ok |-> TRUE, objects |-> objects \cup {stmt.name}]
    [] stmt.ddl = "create_or_replace_function" -> [ok |-> TRUE, objects |-> objects \cup {stmt.name}]
    [] stmt.ddl = "drop_trigger_if_exists" -> [ok |-> TRUE, objects |-> objects \ {stmt.name}]
    [] stmt.ddl = "create_trigger" ->
         IF stmt.name \in objects THEN [ok |-> FALSE, objects |-> objects]
         ELSE [ok |-> TRUE, objects |-> objects \cup {stmt.name}]

\* a multi-statement simple query is one implicit transaction: the first
\* failing statement undoes the statements before it
RECURSIVE RunDdl(_, _)
RunDdl(stmts, objects) ==
  IF stmts = <<>> THEN [ok |-> TRUE, objects |-> objects]
  ELSE LET r == ExecDdl(Head(stmts), objects)
       IN IF r.ok THEN RunDdl(Tail(stmts), r.objects) ELSE r

BatchExecute(stmts, objects) ==
  LET r == RunDdl(stmts, objects)
  IN IF r.ok THEN r ELSE [ok |-> FALSE, objects |-> objects]

\* one call of setup; an Err returns from setup through '?'
LogTableSetupStep ==
  /\ call.fn = "LogTableReplay::setup"
  /\ ~ret.done
  /\ orchPc \in Range(SetupSteps("Log"))
  /\ LET r == BatchExecute(SetupStatements(orchPc), installed)
         next == StepAfter("Log", orchPc)
     IN /\ installed' = r.objects
        /\ logExists' = ("log_table" \in r.objects)
        /\ trig' = ({"insert_trigger", "delete_trigger", "update_trigger"} \subseteq r.objects)
        /\ orchPc' = IF r.ok THEN next ELSE "setup_err"
        /\ ret' = IF r.ok /\ next # "setup_ok" THEN ret
                  ELSE [done |-> TRUE, value |-> IF r.ok THEN "ok" ELSE "err"]
  /\ UNCHANGED call
  /\ UNCHANGED <<T, shadow, log, nextSeq, shadowExists, swapped, oldExists>>
  /\ UNCHANGED <<execute, mode, stop_replay, tx, cutoverBegin>>
  /\ UNCHANGED <<bfVars, rpVars, clVars, apVars, lrVars, stVars>>

\* setup is called again on the same tables (run_replay_setup, then run_replay)
LogTableSetupAgain ==
  /\ call.fn = "LogTableReplay::setup"
  /\ call.run = 1
  /\ ret.done
  /\ ret.value = "ok"
  /\ call' = [fn |-> "LogTableReplay::setup", run |-> 2, logBefore |-> log]
  /\ ret' = NoReturn
  /\ orchPc' = SetupSteps("Log")[1]
  /\ UNCHANGED <<dbVars, execute, mode, stop_replay, tx, cutoverBegin>>
  /\ UNCHANGED <<bfVars, rpVars, clVars, apVars, lrVars, stVars>>

InitSetupTwice ==
  /\ T \in InitTables
  /\ shadow = EmptyTable
  /\ shadowExists = TRUE
  /\ log = <<>>
  /\ nextSeq = 1
  /\ trig = FALSE
  /\ logExists = FALSE
  /\ swapped = FALSE
  /\ oldExists = FALSE
  /\ installed = {}
  /\ execute = FALSE
  /\ mode = "Log"
  /\ stop_replay = FALSE
  /\ orchPc = SetupSteps("Log")[1]
  /\ tx = NoTx
  /\ cutoverBegin = NoSnapshot
  /\ batch_size = 1
  /\ bfPc = "unborn"
  /\ last_seen_id = <<>>
  /\ bfReturned = <<>>
  /\ rpPc = "unborn"
  /\ rpResult = "none"
  /\ rpBatch = <<>>
  /\ writesLeft = MaxWrites
  /\ everDeleted = {}
  /\ apPc = "idle"
  /\ apRow = [seq |-> 0, op |-> "INSERT", pk |-> 1]
  /\ apOnce = NoResult
  /\ apTwice = NoResult
  /\ call = [fn |-> "LogTableReplay::setup", run |-> 1, logBefore |-> <<>>]
  /\ ret = NoReturn
  /\ IdleStream
  /\ IdleLogical

NextSetupTwice ==
  \/ LogTableSetupStep
  \/ LogTableSetupAgain
  \/ ClientInsert
  \/ ClientUpdate
  \/ ClientDelete

SpecSetupTwice == InitSetupTwice /\ [][NextSetupTwice]_vars

\* ------------------------------------------------------------ claims (SpecSetupTwice)
\* C37: the second run of LogTableReplay::setup returns Ok; afterwards the
\* log table, the three trigger functions and the three triggers exist, one
\* each, and every log row recorded before the second run is still there.
C37_SetupIdempotent ==
  call.fn = "LogTableReplay::setup" /\ call.run = 2 /\ ret.done =>
    /\ ret.value = "ok"
    /\ installed = TriggerObjects
    /\ IsPrefix(call.logBefore, log)

\* the second run has returned; rows were logged before it and during it
C37_Witness ==
  /\ call.fn = "LogTableReplay::setup"
  /\ call.run = 2
  /\ ret.done
  /\ call.logBefore # <<>>
  /\ Len(log) > Len(call.logBefore)

\* ------------------------------------------------------------ ColumnMap::main_cols, ColumnMap::shadow_cols
\* (mutant) main_cols without the filter on mapped entries
main_cols_all(map) == [i \in 1..Len(map) |-> map[i].main]

\* filter_map(|(main, shadow)| shadow.as_ref().map(|_| main.clone()))
main_cols(map) ==
  LET mapped == SelectSeq(map, LAMBDA e : e.shadow # None)
  IN [i \in 1..Len(mapped) |-> mapped[i].main]

\* filter_map(|(_main, shadow)| shadow.clone())
shadow_cols(map) ==
  LET mapped == SelectSeq(map, LAMBDA e : e.shadow # None)
  IN [i \in 1..Len(mapped) |-> mapped[i].shadow[1]]

\* the two column lists of the map ColumnMap::new has just built
ColumnMapColsCall ==
  /\ call.fn = "ColumnMap::new"
  /\ ret.done
  /\ call' = [fn |-> "ColumnMap::cols", args |-> ret.value, tables |-> call.args]
  /\ ret' = [done |-> TRUE,
             value |-> [main_cols |-> main_cols(ret.value), shadow_cols |-> shadow_cols(ret.value)]]
  /\ UNCHANGED <<dbVars, orchVars, bfVars, rpVars, clVars, apVars, lrVars, stVars>>

NextColumnLists == ColumnMapNewCall \/ ColumnMapColsCall

SpecColumnLists == InitColumnMap /\ [][NextColumnLists]_vars

\* the position of column c in the list cols
IndexOf(cols, c) == CHOOSE i \in 1..Len(cols) : cols[i] = c

\* ------------------------------------------------------------ claims (SpecColumnLists)
\* C38: main_cols() and shadow_cols() have the same length, position i of
\* shadow_cols() is the destination the map gives position i of main_cols(),
\* main_cols() follows the column order of the main table, and no shadow
\* column occurs twice in shadow_cols().
C38_ColumnListsAligned ==
  ret.done /\ call.fn = "ColumnMap::cols" =>
    LET m == ret.value.main_cols
        sh == ret.value.shadow_cols
        map == call.args
        table_cols == call.tables.main_cols
    IN /\ Len(m) = Len(sh)
       /\ \A i \in 1..Len(m) :
            \E j \in 1..Len(map) : map[j].main = m[i] /\ map[j].shadow = Some(sh[i])
       /\ \A i, j \in 1..Len(m) :
            i < j => IndexOf(table_cols, m[i]) < IndexOf(table_cols, m[j])
       /\ \A i, j \in 1..Len(sh) : i # j => sh[i] # sh[j]

\* a map with a dropped column before a kept one
C38_Witness ==
  /\ ret.done
  /\ call.fn = "ColumnMap::cols"
  /\ Len(call.args) >= 2
  /\ call.args[1].shadow = None
  /\ call.args[2].shadow # None
  /\ Len(ret.value.shadow_cols) >= 1

\* ------------------------------------------------------------ ReplicationMessage::parse, byte by byte
\* A frame is a sequence of bytes; a u64 is its 16 hexadecimal digits, as for Lsn.
TagW == 119          \* b'w'
TagK == 107          \* b'k'
MaxWords == 3        \* 8-byte words after the tag byte of a sampled frame
MaxTail == 2         \* bytes after the words of a sampled frame

\* u64::from_be_bytes: the first byte is the most significant
from_be_bytes(b) ==
  [i \in HexPos |-> IF i % 2 = 1 THEN b[(i + 1) \div 2] \div 16 ELSE b[i \div 2] % 16]

\* u64::to_be_bytes
to_be_bytes(v) == [j \in 1..HalfWidth |-> v[2 * j - 1] * 16 + v[2 * j]]

\* (mutant) a keepalive whose flag counts only when the byte is 1
PrimaryKeepAlive_parse_flag_one(buf) ==
  IF Len(buf) < 17 THEN None
  ELSE Some([kind |-> "PrimaryKeepAlive",
             wal_end |-> from_be_bytes(SubSeq(buf, 1, 8)),
             timestamp |-> from_be_bytes(SubSeq(buf, 9, 16)),
             reply_requested |-> buf[17] = 1])

\* XLogData::parse, on the bytes after the tag
XLogData_parse(buf) ==
  IF Len(buf) < 24 THEN None
  ELSE Some([kind |-> "XLogData",
             wal_start |-> from_be_bytes(SubSeq(buf, 1, 8)),
             wal_end |-> from_be_bytes(SubSeq(buf, 9, 16)),
             timestamp |-> from_be_bytes(SubSeq(buf, 17, 24)),
             data |-> SubSeq(buf, 25, Len(buf))])

\* PrimaryKeepAlive::parse, on the bytes after the tag
PrimaryKeepAlive_parse(buf) ==
  IF Len(buf) < 17 THEN None
  ELSE Some([kind |-> "PrimaryKeepAlive",
             wal_end |-> from_be_bytes(SubSeq(buf, 1, 8)),
             timestamp |-> from_be_bytes(SubSeq(buf, 9, 16)),
             reply_requested |-> buf[17] # 0])

\* ReplicationMessage::parse
ReplicationMessage_parse(buf) ==
  IF buf = <<>> THEN None
  ELSE CASE buf[1] = TagW -> XLogData_parse(Tail(buf))
         [] buf[1] = TagK -> PrimaryKeepAlive_parse(Tail(buf))
         [] OTHER -> Some([kind |-> "Unknown", tag |-> buf[1], bytes |-> Tail(buf)])

\* the frame layout of section 4.7 written from parsed fields
Encode(msg) ==
  CASE msg.kind = "XLogData" ->
         <<TagW>> \o to_be_bytes(msg.wal_start) \o to_be_bytes(msg.wal_end)
           \o to_be_bytes(msg.timestamp) \o msg.data
    [] msg.kind = "PrimaryKeepAlive" ->
         <<TagK>> \o to_be_bytes(msg.wal_end) \o to_be_bytes(msg.timestamp)
           \o <<IF msg.reply_requested THEN 1 ELSE 0>>
    [] OTHER -> <<msg.tag>> \o msg.bytes

\* sampled frames: a tag byte, up to MaxWords 8-byte words (the values of
\* test_parse_xlogdata_lsn) and up to MaxTail further bytes
SampleWords == {<<0, 0, 0, 1, 0, 0, 0, 10>>, <<0, 0, 1, 141, 79, 223, 176, 0>>}
SampleBytes == {0, 1, 222}
SampleTags == {TagW, TagK, 120}
RECURSIVE Flatten(_)
Flatten(ws) == IF ws = <<>> THEN <<>> ELSE Head(ws) \o Flatten(Tail(ws))
SampleFrames ==
  {<<>>} \cup
  {<<t>> \o Flatten(ws) \o tail :
     t \in SampleTags,
     ws \in UNION {[1..n -> SampleWords] : n \in 0..MaxWords},
     tail \in UNION {[1..n -> SampleBytes] : n \in 0..MaxTail}}

ReplicationMessageParseCall ==
  Returns("ReplicationMessage::parse", ReplicationMessage_parse(call.args))

InitParse ==
  /\ call \in [fn : {"ReplicationMessage::parse"}, args : SampleFrames]
  /\ ret = NoReturn
  /\ IdleProgram

NextParse == ReplicationMessageParseCall

SpecParse == InitParse /\ [][NextParse]_vars

\* what parse reads of a frame, stated from the frame: the fields written back
\* as bytes are the frame's bytes
ParsedFieldsAreTheFrames(buf, parsed) ==
  /\ buf # <<>> /\ buf[1] = TagW /\ Len(buf) >= 25 =>
       /\ parsed # None
       /\ parsed[1].kind = "XLogData"
       /\ to_be_bytes(parsed[1].wal_start) = SubSeq(buf, 2, 9)
       /\ to_be_bytes(parsed[1].wal_end) = SubSeq(buf, 10, 17)
       /\ to_be_bytes(parsed[1].timestamp) = SubSeq(buf, 18, 25)
       /\ parsed[1].data = SubSeq(buf, 26, Len(buf))
  /\ buf # <<>> /\ buf[1] = TagK /\ Len(buf) >= 18 =>
       /\ parsed # None
       /\ parsed[1].kind = "PrimaryKeepAlive"
       /\ to_be_bytes(parsed[1].wal_end) = SubSeq(buf, 2, 9)
       /\ to_be_bytes(parsed[1].timestamp) = SubSeq(buf, 10, 17)
       /\ parsed[1].reply_requested = (buf[18] # 0)
  /\ buf # <<>> /\ buf[1] \notin {TagW, TagK} =>
       parsed = Some([kind |-> "Unknown", tag |-> buf[1], bytes |-> Tail(buf)])

\* a keepalive frame of exactly its 17 bytes whose flag byte is 0 or 1
CanonicalFrame(buf) ==
  buf[1] = TagK => Len(buf) = 18 /\ buf[18] \in {0, 1}

\* ------------------------------------------------------------ claims (SpecParse)
\* C39 as stated: parse yields the fields of a 'w' and of a 'k' frame and
\* Unknown(kind, bytes) for another kind, and re-encoding the parsed fields
\* reproduces every parsed frame.
C39_ParseRoundTrip ==
  ret.done /\ call.fn = "ReplicationMessage::parse" =>
    /\ ParsedFieldsAreTheFrames(call.args, ret.value)
    /\ ret.value # None => Encode(ret.value[1]) = call.args

\* C39, amended: parse yields the fields as stated; re-encoding reproduces a
\* 'w' frame, a frame of another kind, and a 'k' frame of exactly 17 bytes
\* whose flag byte is 0 or 1; for every parsed frame, parsing the re-encoded
\* frame gives the same fields.
C39_ParseRoundTripCanonical ==
  ret.done /\ call.fn = "ReplicationMessage::parse" =>
    /\ ParsedFieldsAreTheFrames(call.args, ret.value)
    /\ ret.value # None /\ CanonicalFrame(call.args) => Encode(ret.value[1]) = call.args
    /\ ret.value # None => ReplicationMessage_parse(Encode(ret.value[1])) = ret.value

\* a keepalive frame of 17 bytes with reply_requested set has been parsed
C39_Witness ==
  /\ ret.done
  /\ call.fn = "ReplicationMessage::parse"
  /\ call.args # <<>>
  /\ call.args[1] = TagK
  /\ Len(call.args) = 18
  /\ ret.value # None
  /\ ret.value[1].reply_requested

\* ------------------------------------------------------------ with_replication_param
\* A connection string is a sequence of pieces of text, chosen so that no
\* searched pattern straddles two pieces in another way than listed here.
MaxPieces == 4       \* pieces of a sampled connection string

Space == " "
Pieces ==
  {"postgres://", "postgresql://", "host=localhost", Space, "?", "replication=",
   "database", "true"}
ConnInfos == UNION {[1..n -> Pieces] : n \in 0..MaxPieces}

\* str::contains, str::starts_with, str::ends_with
Contains(str, pat) ==
  \E i \in 0..(Len(str) - Len(pat)) : SubSeq(str, i + 1, i + Len(pat)) = pat
StartsWith(str, pat) == Len(pat) <= Len(str) /\ SubSeq(str, 1, Len(pat)) = pat
EndsWith(str, pat) ==
  Len(pat) <= Len(str) /\ SubSeq(str, Len(str) - Len(pat) + 1, Len(str)) = pat

\* str::trim: without the white space at both ends
Trim(str) ==
  LET text == {i \in 1..Len(str) : str[i] # Space}
  IN IF text = {} THEN <<>>
     ELSE SubSeq(str, CHOOSE i \in text : \A j \in text : i <= j,
                      CHOOSE i \in text : \A j \in text : j <= i)

ReplicationDatabase == <<"replication=", "database">>

with_replication_param(arg) ==
  LET conninfo == Trim(arg)
  IN IF Contains(conninfo, <<"replication=">>) THEN conninfo
     ELSE IF StartsWith(conninfo, <<"postgres://">>) \/ StartsWith(conninfo, <<"postgresql://">>)
     THEN IF Contains(conninfo, <<"?">>)
          THEN conninfo \o <<"&">> \o ReplicationDatabase
          ELSE conninfo \o <<"?">> \o ReplicationDatabase
     ELSE IF conninfo # <<>> /\ ~EndsWith(conninfo, <<Space>>)
          THEN conninfo \o <<Space>> \o ReplicationDatabase
          ELSE conninfo \o ReplicationDatabase

WithReplicationParamCall ==
  Returns("with_replication_param", with_replication_param(call.args))

\* the function applied to its own result
WithReplicationParamAgain ==
  /\ call.fn = "with_replication_param"
  /\ ~call.again
  /\ ret.done
  /\ call' = [fn |-> "with_replication_param", args |-> ret.value, again |-> TRUE]
  /\ ret' = [done |-> TRUE, value |-> with_replication_param(ret.value)]
  /\ UNCHANGED <<dbVars, orchVars, bfVars, rpVars, clVars, apVars, lrVars, stVars>>

InitConnInfo ==
  /\ call \in [fn : {"with_replication_param"}, args : ConnInfos, again : {FALSE}]
  /\ ret = NoReturn
  /\ IdleProgram

NextConnInfo == WithReplicationParamCall \/ WithReplicationParamAgain

SpecConnInfo == InitConnInfo /\ [][NextConnInfo]_vars

\* how many times pat occurs in str
Occurrences(str, pat) ==
  Cardinality({i \in 0..(Len(str) - Len(pat)) : SubSeq(str, i + 1, i + Len(pat)) = pat})

\* ------------------------------------------------------------ claims (SpecConnInfo)
\* C40: the result of with_replication_param contains replication=database
\* exactly once and starts with the string it was given, and the function
\* applied to its own result returns it unchanged.
C40_ReplicationParamOnce ==
  ret.done /\ call.fn = "with_replication_param" =>
    /\ Occurrences(ret.value, ReplicationDatabase) = 1
    /\ IsPrefix(call.args, ret.value)
    /\ call.again => ret.value = call.args

====
